---- MODULE Spec2Model ----
(***************************************************************************)
(* Harness-racing analytics backend: the entity store (horses, drivers,    *)
(* trainers, races, race entries), the per-entity statistics of            *)
(* HorseService / DriverService / TrainerService, the leaderboards of      *)
(* AnalyticsService.get_top_performers, the race trends of                 *)
(* AnalyticsService.get_trends, the ingestion and sample-data generation   *)
(* of DataFetcher (also on a store that fails, and with runs that          *)
(* overlap), its audit records and data status, and the recent form and    *)
(* best time of a horse.                                                   *)
(*                                                                         *)
(* Conventions.  SQL NULL / Python None is the integer NULL (-1); every    *)
(* real column value is >= 0.  Money is counted in cents, the resolution   *)
(* of Numeric(10, 2).                                                      *)
(* Percentages are kept in hundredths of a percent (5000 = 50.00), the     *)
(* resolution of round(x, 2).  Dates are day ordinals.  The table          *)
(* race_entries is a bag of rows (the surrogate id carries no information  *)
(* beyond the multiplicity of a row); races likewise.                      *)
(***************************************************************************)
EXTENDS Integers, Sequences, FiniteSets, Bags, TLC

VARIABLES
    inflight,       \* the runs of the data fetcher that await the scraping
    tracks,         \* table tracks:   id -> [name]
    fetches,        \* table data_fetches: the rows in id order
    horses,         \* table horses:   id -> [active, ...]
    drivers,        \* table drivers:  id -> [active, ...]
    trainers,       \* table trainers: id -> [active, ...]
    entries,        \* table race_entries: bag of rows
    races,          \* table races: bag of rows
    today,          \* date.today()
    nulls_largest,  \* the store's ordering of NULL: TRUE = NULL sorts above every value
    resp            \* the response of the request handled last on the current store

vars == <<inflight, tracks, fetches, horses, drivers, trainers, entries,
          races, today, nulls_largest, resp>>

NULL == -1

(***************************************************************************)
(* Bounds of the model.                                                    *)
(***************************************************************************)
MaxEntriesStats == 3        \* rows of race_entries in SpecStats
MaxEntriesTop == 3          \* rows of race_entries in SpecTop
MaxEntriesWinRate == 10     \* rows of race_entries in SpecWinRate
MaxRaces == 3               \* rows of races in SpecTrends
MaxFetches == 2             \* rows of data_fetches in SpecIngest
MaxRacesForm == 6           \* rows of races in SpecForm
MaxEntriesBest == 3         \* rows of race_entries in SpecBest
MaxFetchesFaults == 1       \* rows of data_fetches in SpecFaults
MaxFetchesStatus == 2       \* rows of data_fetches in SpecStatus
MaxFetchesOverlap == 2      \* runs begun or recorded in SpecOverlap
MaxRacesSnapshot == 6       \* rows of races in SpecSnapshot

\* the primary keys in the tables horses, drivers and trainers
HorseIds == {1, 2}
DriverIds == {1}
TrainerIds == {1}

NoResp == [op |-> "none"]

\* tracks_data of _initialize_tracks: the names of the track catalog
TrackCatalog ==
    <<"Woodbine Mohawk Park", "Georgian Downs", "Grand River Raceway",
      "Hanover Raceway", "Kawartha Downs">>

(***************************************************************************)
(* Generic helpers.                                                        *)
(***************************************************************************)
RECURSIVE SumFn(_)
\* the sum of the values of a function with a finite domain
SumFn(F) ==
    IF DOMAIN F = {} THEN 0
    ELSE LET x == CHOOSE y \in DOMAIN F : TRUE
         IN  F[x] + SumFn([y \in (DOMAIN F) \ {x} |-> F[y]])

\* a bag restricted to the rows of the set S (the rows that pass a filter)
FilterBag(B, S) == [r \in S \cap DOMAIN B |-> B[r]]

\* func.count(<non-null column>): the number of rows, 0 for no rows
SqlCount(B) == SumFn(B)

\* func.sum(case((cond, 1), else_=0)): NULL for no rows, else the number of rows
\* on which cond is true (a NULL comparison is not true)
SqlSumCase(B, col, val) ==
    IF DOMAIN B = {} THEN NULL
    ELSE SumFn([r \in DOMAIN B |-> IF r[col] = val THEN B[r] ELSE 0])

\* func.sum(column): NULL when no row has a non-null value, else the sum of the
\* non-null values
SqlSum(B, col) ==
    IF \A r \in DOMAIN B : r[col] = NULL THEN NULL
    ELSE SumFn([r \in DOMAIN B |-> IF r[col] = NULL THEN 0 ELSE r[col] * B[r]])

\* Python `x or 0` on a query result
OrZero(x) == IF x = NULL THEN 0 ELSE x

\* round(num / den * 100, 2) in hundredths of a percent
Round2Pct(num, den) == (2 * num * 10000 + den) \div (2 * den)

\* the percentage expressions of the services: guarded by total_starts > 0
Percentage(num, total_starts) ==
    IF total_starts > 0 THEN Round2Pct(num, total_starts) ELSE 0

(***************************************************************************)
(* The store.                                                              *)
(***************************************************************************)
\* one row of race_entries
EntryRow(h, d, t, fin, earn, scr) ==
    [horse_id |-> h, driver_id |-> d, trainer_id |-> t,
     finish_position |-> fin, earnings |-> earn, scratched |-> scr]

\* db.add(RaceEntry(...)); db.commit(): one more row; the foreign keys refer to
\* existing rows.  A response computed on the old store is no longer current.
InsertEntry(h, d, t, fin, earn, scr) ==
    /\ h \in DOMAIN horses
    /\ d \in DOMAIN drivers
    /\ t \in DOMAIN trainers
    /\ entries' = entries (+) SetToBag({EntryRow(h, d, t, fin, earn, scr)})
    /\ resp' = NoResp
    /\ UNCHANGED <<inflight, tracks, fetches, horses, drivers, trainers, races, today, nulls_largest>>

(***************************************************************************)
(* Metrics engine: HorseService.get_horse_stats and its siblings.          *)
(***************************************************************************)
\* the aggregate query of get_horse_stats and the arithmetic after it
HorseStatsResult(horse_id) ==
    LET rows == FilterBag(entries,
                    {e \in DOMAIN entries :
                        e.horse_id = horse_id /\ e.scratched = FALSE})
        total_starts == OrZero(SqlCount(rows))
        wins == OrZero(SqlSumCase(rows, "finish_position", 1))
        places == OrZero(SqlSumCase(rows, "finish_position", 2))
        shows == OrZero(SqlSumCase(rows, "finish_position", 3))
        total_earnings == OrZero(SqlSum(rows, "earnings"))
    IN  [op |-> "stats", kind |-> "horse", id |-> horse_id, status |-> "ok",
         total_starts |-> total_starts, wins |-> wins,
         places |-> places, shows |-> shows,
         win_percentage |-> Percentage(wins, total_starts),
         place_percentage |-> Percentage(wins + places, total_starts),
         show_percentage |-> Percentage(wins + places + shows, total_starts),
         total_earnings |-> total_earnings,
         average_earnings |->
             IF total_starts > 0 THEN <<total_earnings, total_starts>>
                                 ELSE <<0, 1>>]

\* get_driver_stats builds its aggregates with func.case((cond, 1), else_=0):
\* `func.case` is the generic SQL-function generator, not the CASE construct,
\* and rejects the keyword else_; the call raises before any row is read.
DriverStatsResult(driver_id) ==
    [op |-> "stats", kind |-> "driver", id |-> driver_id,
     status |-> "error", error |-> "TypeError"]

\* get_trainer_stats: the same func.case construction
TrainerStatsResult(trainer_id) ==
    [op |-> "stats", kind |-> "trainer", id |-> trainer_id,
     status |-> "error", error |-> "TypeError"]

\* GET /api/horses/{horse_id}/stats: the service result is returned as is
GetHorseStats(horse_id) ==
    /\ resp' = HorseStatsResult(horse_id)
    /\ UNCHANGED <<inflight, tracks, fetches, horses, drivers, trainers, entries, races, today, nulls_largest>>

\* GET /api/drivers/{driver_id}/stats
GetDriverStats(driver_id) ==
    /\ resp' = DriverStatsResult(driver_id)
    /\ UNCHANGED <<inflight, tracks, fetches, horses, drivers, trainers, entries, races, today, nulls_largest>>

\* GET /api/trainers/{trainer_id}/stats
GetTrainerStats(trainer_id) ==
    /\ resp' = TrainerStatsResult(trainer_id)
    /\ UNCHANGED <<inflight, tracks, fetches, horses, drivers, trainers, entries, races, today, nulls_largest>>

(***************************************************************************)
(* Leaderboard builder: AnalyticsService.get_top_performers.               *)
(***************************************************************************)
DefaultMinStarts == 5

\* HorseJoinRows without its two filters
HorseJoinRows_Unfiltered(h) ==
    FilterBag(entries, {e \in DOMAIN entries : e.horse_id = h})

\* Horse JOIN RaceEntry, filter(Horse.active == True),
\* filter(RaceEntry.scratched == False): the joined rows of one horse
HorseJoinRows(h) ==
    IF horses[h].active = TRUE
    THEN FilterBag(entries, {e \in DOMAIN entries :
                                e.horse_id = h /\ e.scratched = FALSE})
    ELSE EmptyBag

\* group_by(Horse.id, Horse.name) with the selected aggregates: one row per
\* horse that has a joined row; the aggregates are the raw SQL values
HorseGroups ==
    {[id |-> h,
      total_starts |-> SqlCount(HorseJoinRows(h)),
      wins |-> SqlSumCase(HorseJoinRows(h), "finish_position", 1),
      total_earnings |-> SqlSum(HorseJoinRows(h), "earnings")]
        : h \in {x \in DOMAIN horses : HorseJoinRows(x) # EmptyBag}}

\* HavingMinStarts with the HAVING clause left out
HavingMinStarts_Dropped(G, min_starts) == G

\* having(func.count(RaceEntry.id) >= min_starts)
HavingMinStarts(G, min_starts) == {g \in G : g.total_starts >= min_starts}

\* ORDER BY key DESC: may a row with key a stand before a row with key b
DescBefore(a, b) ==
    IF a = NULL /\ b = NULL THEN TRUE
    ELSE IF a = NULL THEN nulls_largest
    ELSE IF b = NULL THEN ~nulls_largest
    ELSE a >= b

\* the ORDER BY expressions of the three horse leaderboards; the quotient of
\* two integer aggregates is an integer division
OrderKeyWins(G) == [g \in G |-> g.wins]
OrderKeyEarnings(G) == [g \in G |-> g.total_earnings]
OrderKeyWinRate(G) == [g \in G |-> g.wins \div g.total_starts]

\* order_by(desc(key)).limit(limit).all(): every sequence the store may return.
\* Rows with equal keys come in whatever order the store produces them.
\* key is the function from the rows of G to their sort keys.
OrderByDescLimit(G, key, limit) ==
    LET n == IF Cardinality(G) < limit THEN Cardinality(G) ELSE limit
    IN  {s \in [1..n -> G] :
            /\ \A i, j \in 1..n : i < j =>
                   s[i] # s[j] /\ DescBefore(key[s[i]], key[s[j]])
            /\ \A g \in G \ {s[i] : i \in 1..n} :
                   \A i \in 1..n : DescBefore(key[s[i]], key[g])}

\* the dict built for one result row
PerformerDict(g) ==
    [id |-> g.id,
     total_starts |-> g.total_starts,
     wins |-> g.wins,
     win_percentage |-> Percentage(g.wins, g.total_starts),
     total_earnings |-> OrZero(g.total_earnings)]

PerformerList(s) == [i \in DOMAIN s |-> PerformerDict(s[i])]

get_top_horses_by_wins(limit) ==
    {PerformerList(s) :
        s \in OrderByDescLimit(HorseGroups, OrderKeyWins(HorseGroups), limit)}

get_top_horses_by_earnings(limit) ==
    {PerformerList(s) :
        s \in OrderByDescLimit(HorseGroups, OrderKeyEarnings(HorseGroups),
                               limit)}

get_top_horses_by_win_rate(limit, min_starts) ==
    LET G == HavingMinStarts(HorseGroups, min_starts)
    IN  {PerformerList(s) : s \in OrderByDescLimit(G, OrderKeyWinRate(G), limit)}

TopOk(L) == {[status |-> "ok", performers |-> l] : l \in L}

\* get_top_drivers_by_wins / _by_earnings and the trainer twins build their
\* aggregates with func.case(..., else_=0), as get_driver_stats does: they raise
TopRaises == {[status |-> "error", error |-> "TypeError"]}

\* the dispatch of get_top_performers: the outcomes a call may have.  No branch
\* exists for win_rate of drivers or trainers: performers stays [].
TopPerformersOutcomes(category, metric, limit) ==
    IF category = "horses" THEN
        IF metric = "wins" THEN TopOk(get_top_horses_by_wins(limit))
        ELSE IF metric = "earnings" THEN TopOk(get_top_horses_by_earnings(limit))
        ELSE IF metric = "win_rate"
            THEN TopOk(get_top_horses_by_win_rate(limit, DefaultMinStarts))
        ELSE TopOk({<<>>})
    ELSE IF category \in {"drivers", "trainers"} THEN
        IF metric \in {"wins", "earnings"} THEN TopRaises
        ELSE TopOk({<<>>})
    ELSE TopOk({<<>>})

\* GET /api/analytics/top-performers
GetTopPerformers(category, metric, limit) ==
    /\ \E out \in TopPerformersOutcomes(category, metric, limit) :
          resp' = IF out.status = "ok"
                  THEN [op |-> "top", category |-> category, metric |-> metric,
                        limit |-> limit, status |-> "ok",
                        performers |-> out.performers]
                  ELSE [op |-> "top", category |-> category, metric |-> metric,
                        limit |-> limit, status |-> "error",
                        error |-> out.error]
    /\ UNCHANGED <<inflight, tracks, fetches, horses, drivers, trainers, entries, races, today, nulls_largest>>

(***************************************************************************)
(* Trend aggregator: AnalyticsService.get_trends.                          *)
(***************************************************************************)
WeekDays == 7
MonthDays == 30
QuarterDays == 90
YearDays == 365

\* one row of races
RaceRow(track, num, d, purse) ==
    [track_id |-> track, race_number |-> num, race_date |-> d, purse |-> purse]

\* db.add(Race(...)); db.commit()
InsertRace(track, num, d, purse) ==
    /\ races' = races (+) SetToBag({RaceRow(track, num, d, purse)})
    /\ resp' = NoResp
    /\ UNCHANGED <<inflight, tracks, fetches, horses, drivers, trainers, entries, today, nulls_largest>>

\* timedelta(days=...) of the period; every period but week, month and quarter
\* takes the else branch
PeriodDays(period) ==
    IF period = "week" THEN WeekDays
    ELSE IF period = "month" THEN MonthDays
    ELSE IF period = "quarter" THEN QuarterDays
    ELSE YearDays

\* start_date = end_date - timedelta(days=...), end_date = date.today()
TrendStartDate(period) == today - PeriodDays(period)
TrendEndDate == today

\* filter(Race.race_date.between(start_date, end_date))
TrendRaces(period) ==
    FilterBag(races, {r \in DOMAIN races :
                         /\ r.race_date >= TrendStartDate(period)
                         /\ r.race_date <= TrendEndDate})

RECURSIVE SortAsc(_)
\* order_by(Race.race_date) over the group keys
SortAsc(S) ==
    IF S = {} THEN <<>>
    ELSE LET m == CHOOSE x \in S : \A y \in S : x <= y
         IN  <<m>> \o SortAsc(S \ {m})

\* TrendRow with float(trend.total_purse) in place of float(... or 0)
TrendRow_NoCoalesce(B, d) ==
    LET rows == FilterBag(B, {r \in DOMAIN B : r.race_date = d})
    IN  [date |-> d,
         race_count |-> SqlCount(rows),
         total_purse |-> SqlSum(rows, "purse")]

\* the group of one race_date and the dict built from it
TrendRow(B, d) ==
    LET rows == FilterBag(B, {r \in DOMAIN B : r.race_date = d})
    IN  [date |-> d,
         race_count |-> SqlCount(rows),
         total_purse |-> OrZero(SqlSum(rows, "purse"))]

\* group_by(Race.race_date).order_by(Race.race_date).all() and the list `data`
TrendData(period) ==
    LET B == TrendRaces(period)
        keys == SortAsc({r.race_date : r \in DOMAIN B})
    IN  [i \in DOMAIN keys |-> TrendRow(B, keys[i])]

\* GET /api/analytics/trends
GetTrends(period) ==
    /\ resp' = [op |-> "trends", status |-> "ok", period |-> period,
                data |-> TrendData(period)]
    /\ UNCHANGED <<inflight, tracks, fetches, horses, drivers, trainers, entries, races, today, nulls_largest>>

(***************************************************************************)
(* Specification of the metrics engine.                                    *)
(***************************************************************************)
FinInputsStats == {NULL, 1, 2, 3, 4}
EarnInputsStats == {NULL, 2}

\* the store before any race or entry is ingested
InitStore ==
    /\ inflight = EmptyBag
    /\ tracks = [i \in DOMAIN TrackCatalog |->
                    [name |-> TrackCatalog[i], active |-> TRUE]]
    /\ fetches = <<>>
    /\ entries = EmptyBag
    /\ races = EmptyBag
    /\ today = 0
    /\ resp = NoResp

InitStats ==
    /\ InitStore
    /\ horses = [h \in HorseIds |-> [active |-> TRUE]]
    /\ drivers = [d \in DriverIds |-> [active |-> TRUE]]
    /\ trainers = [t \in TrainerIds |-> [active |-> TRUE]]
    /\ nulls_largest = FALSE      \* no query of this specification sorts

AddEntryStats ==
    /\ BagCardinality(entries) < MaxEntriesStats
    /\ \E h \in HorseIds, d \in DriverIds, t \in TrainerIds,
          fin \in FinInputsStats, earn \in EarnInputsStats, scr \in BOOLEAN :
            InsertEntry(h, d, t, fin, earn, scr)

\* the ids asked for: those in the store and one that is in no table
IdInputs == HorseIds \cup DriverIds \cup TrainerIds \cup {3}

CallHorseStats == \E id \in IdInputs : GetHorseStats(id)
CallDriverStats == \E id \in IdInputs : GetDriverStats(id)
CallTrainerStats == \E id \in IdInputs : GetTrainerStats(id)

NextStats ==
    \/ CallHorseStats
    \/ CallDriverStats
    \/ CallTrainerStats
    \/ AddEntryStats

SpecStats == InitStats /\ [][NextStats]_vars

(***************************************************************************)
(* Specification of the wins and earnings leaderboards.                    *)
(***************************************************************************)
Categories == {"horses", "drivers", "trainers"}
LimitInputs == {1, 2}
FinInputsTop == {NULL, 1}
EarnInputsTop == {NULL, 1}

InitTop ==
    /\ InitStore
    /\ horses \in [HorseIds -> [active : BOOLEAN]]
    /\ drivers = [d \in DriverIds |-> [active |-> TRUE]]
    /\ trainers = [t \in TrainerIds |-> [active |-> TRUE]]
    /\ nulls_largest \in BOOLEAN

AddEntryTop ==
    /\ BagCardinality(entries) < MaxEntriesTop
    /\ \E h \in HorseIds, d \in DriverIds, t \in TrainerIds,
          fin \in FinInputsTop, earn \in EarnInputsTop, scr \in BOOLEAN :
            InsertEntry(h, d, t, fin, earn, scr)

CallTopByWins ==
    \E c \in Categories, limit \in LimitInputs : GetTopPerformers(c, "wins", limit)

CallTopByEarnings ==
    \E c \in Categories, limit \in LimitInputs :
        GetTopPerformers(c, "earnings", limit)

NextTop ==
    \/ CallTopByWins
    \/ CallTopByEarnings
    \/ AddEntryTop

SpecTop == InitTop /\ [][NextTop]_vars

(***************************************************************************)
(* Specification of the win_rate leaderboard.                              *)
(***************************************************************************)
FinInputsWinRate == {1, 2}

InitWinRate ==
    /\ InitStore
    /\ horses = [h \in HorseIds |-> [active |-> TRUE]]
    /\ drivers = [d \in DriverIds |-> [active |-> TRUE]]
    /\ trainers = [t \in TrainerIds |-> [active |-> TRUE]]
    /\ nulls_largest = FALSE      \* the win_rate key is never NULL

AddEntryWinRate ==
    /\ BagCardinality(entries) < MaxEntriesWinRate
    /\ \E h \in HorseIds, d \in DriverIds, t \in TrainerIds,
          fin \in FinInputsWinRate, scr \in BOOLEAN :
            InsertEntry(h, d, t, fin, 0, scr)

CallTopByWinRate ==
    \E c \in Categories, limit \in LimitInputs :
        GetTopPerformers(c, "win_rate", limit)

NextWinRate ==
    \/ CallTopByWinRate
    \/ AddEntryWinRate

SpecWinRate == InitWinRate /\ [][NextWinRate]_vars

(***************************************************************************)
(* Specification of the trend aggregator.                                  *)
(***************************************************************************)
Periods == {"week", "month", "quarter", "year"}
\* race dates relative to today: both sides of each window edge
DateOffsets == {-366, -365, -91, -90, -31, -30, -8, -7, -1, 0, 1}
PurseInputs == {NULL, 0, 2}

InitTrends ==
    /\ InitStore
    /\ horses = [h \in HorseIds |-> [active |-> TRUE]]
    /\ drivers = [d \in DriverIds |-> [active |-> TRUE]]
    /\ trainers = [t \in TrainerIds |-> [active |-> TRUE]]
    /\ nulls_largest = FALSE      \* race_date, the sort key, is NOT NULL

AddRaceTrends ==
    /\ BagCardinality(races) < MaxRaces
    /\ \E off \in DateOffsets, purse \in PurseInputs :
          InsertRace(1, 1, today + off, purse)

CallTrends == \E period \in Periods : GetTrends(period)

NextTrends ==
    \/ CallTrends
    \/ AddRaceTrends

SpecTrends == InitTrends /\ [][NextTrends]_vars

(***************************************************************************)
(* Data ingestion: DataFetcher.  The rosters and the race card are the     *)
(* first rows of the lists in the source; the id of a new row is one more  *)
(* than the largest id in its table.                                       *)
(***************************************************************************)
\* the registration and license numbers of sample_horses, sample_drivers and
\* sample_trainers (the first two of each list)
SampleHorses == <<"ON2021001", "ON2021002">>
SampleDrivers == <<"DR2024001", "DR2024002">>
SampleTrainers == <<"TR2024001", "TR2024002">>

\* range(7) of race_dates, tracks[:2] and range(1, 9) of _create_sample_races
\* (the first two days, the first track, the first race of a card)
SampleDayOffsets == <<0, 1>>
SampleTracksUsed == 1
SampleRaceNumbers == <<1>>

\* random.sample(xs, min(8, len(xs)))
SampleSize == 8
\* purse=15000.00 and the 15000.00 of the earnings expression, in cents
SamplePurse == 15000 * 100
\* base_hour and minutes_increment = race_num * 15
SampleBaseHour == 19
SampleMinutesPerRace == 15
\* the values of positions[i] after random.shuffle(list(range(1, 9))) that
\* the model draws: the winner and both sides of the payout threshold
FinishPositionInputs == {1, 5, 6}
\* if entry.finish_position <= 5
PayoutThreshold == 5
\* one of the strings f"1:{50..59}.{10..99}" (hundredths of a second) and one
\* of the strings f"{2..25}-1" (the odds to one)
FinishTimeInputs == {11500}
FinalOddsInputs == {2}

\* a new row of tracks, horses, drivers or trainers: its natural key and the
\* column default active = True
KeyedRow(col, key) == [c \in {col, "active"} |-> IF c = col THEN key ELSE TRUE]

\* EnsureRows without the lookup: a row is added for every key
EnsureRows_Unchecked(table, col, keys) ==
    table \o [i \in DOMAIN keys |-> KeyedRow(col, keys[i])]

RECURSIVE EnsureRows(_, _, _)
\* for data in keys: existing = query.filter(col == key).first();
\* if not existing: db.add(Row(...))
EnsureRows(table, col, keys) ==
    IF keys = <<>> THEN table
    ELSE LET key == Head(keys)
             t1 == IF \E i \in DOMAIN table : table[i][col] = key
                   THEN table
                   ELSE Append(table, KeyedRow(col, key))
         IN  EnsureRows(t1, col, Tail(keys))

\* InitializeTracks adding the catalog without looking the names up
InitializeTracks_NoLookup(table) ==
    table \o [i \in DOMAIN TrackCatalog |-> KeyedRow("name", TrackCatalog[i])]

\* _initialize_tracks: the catalog, created if absent by name
InitializeTracks(table) == EnsureRows(table, "name", TrackCatalog)

\* what the scraping of the external sites may come to
FetchOutcomes == {"raises", "timeout", "empty", "races"}

\* the fields of the dataclass Race of ontario_racing_api, the type of the
\* scraped races
ScrapedRaceFields ==
    {"race_number", "track", "date", "post_time", "distance", "surface",
     "race_type", "purse", "conditions", "entries", "weather",
     "track_condition"}

\* FetchRealOntarioData with a scraping that found nothing counted as one race
FetchRealOntarioData_CountsEmpty(outcome) ==
    CASE outcome = "raises" ->
            [data_quality |-> "sample", total_races |-> 5 * 7, scraped |-> 0]
      [] outcome \in {"timeout", "empty"} ->
            [data_quality |-> "real", total_races |-> 1, scraped |-> 0]
      [] outcome = "races" ->
            [data_quality |-> "real", total_races |-> 1, scraped |-> 1]

\* fetch_real_ontario_data.  An exception in the try block is answered with
\* generate_sample_data() (data_quality 'sample', 5 tracks of 7 to 11 races:
\* only total_races > 0 is read).  A timeout of an HTTP request is caught in
\* the scraper, which then returns no race.
FetchRealOntarioData(outcome) ==
    CASE outcome = "raises" ->
            [data_quality |-> "sample", total_races |-> 5 * 7, scraped |-> 0]
      [] outcome \in {"timeout", "empty"} ->
            [data_quality |-> "real", total_races |-> 0, scraped |-> 0]
      [] outcome = "races" ->
            [data_quality |-> "real", total_races |-> 1, scraped |-> 1]

\* _process_real_races over `scraped` races.  The loop body starts by reading
\* race_result.track_name, which is no field of the scraped races: the first
\* iteration raises AttributeError before any write, the handler of the
\* function appends the error, and races_created is returned as 0.
ProcessRealRaces(scraped) ==
    IF scraped > 0 /\ "track_name" \notin ScrapedRaceFields
    THEN [races_created |-> 0, errors |-> <<"Race processing error">>]
    ELSE [races_created |-> 0, errors |-> <<>>]

\* _fetch_real_data: True iff real races were created; races_updated is the
\* counter of `results` after it
FetchRealData(outcome) ==
    LET real_data == FetchRealOntarioData(outcome)
        processed ==
            IF real_data.data_quality = "real" /\ real_data.total_races > 0
            THEN ProcessRealRaces(real_data.scraped)
            ELSE [races_created |-> 0, errors |-> <<>>]
    IN  [success |-> processed.races_created > 0,
         races_updated |-> processed.races_created,
         errors |-> processed.errors]

\* if not real_data_success or results['races_updated'] < 5
MinRealRaces == 5

\* NeedsSampleData turned round: the generation runs after a success only
NeedsSampleData_OnSuccess(real) == real.success

\* the condition of the fallback in fetch_latest_data, on the result of
\* _fetch_real_data
NeedsSampleData(real) ==
    ~real.success \/ real.races_updated < MinRealRaces

\* the largest of a set of numbers, 0 for none
MaxOf(S) == IF S = {} THEN 0 ELSE CHOOSE x \in S : \A y \in S : x >= y

\* RandomSample that may also draw the first row for every entry, as
\* random.choice per entry can
RandomSample_MayRepeat(n) ==
    LET k == IF n < SampleSize THEN n ELSE SampleSize
    IN  {s \in [1..k -> 1..n] : \A i, j \in 1..k : i # j => s[i] # s[j]}
        \cup {[i \in 1..k |-> 1]}

\* random.sample(xs, min(8, len(xs))) over the ids 1..n of a table: every
\* sequence of min(8, n) distinct ids
RandomSample(n) ==
    LET k == IF n < SampleSize THEN n ELSE SampleSize
    IN  {s \in [1..k -> 1..n] : \A i, j \in 1..k : i # j => s[i] # s[j]}

\* the race cards of the three nested loops, in loop order: for race_date in
\* race_dates, for track in tracks[:2], for race_num in range
CardsOf(tracks1, offsets, numbers) ==
    LET nt == IF Len(tracks1) < SampleTracksUsed THEN Len(tracks1)
              ELSE SampleTracksUsed
        nr == Len(numbers)
        n == Len(offsets) * nt * nr
    IN  [k \in 1..n |->
            [race_date |-> today - offsets[((k - 1) \div (nt * nr)) + 1],
             track_id |-> (((k - 1) \div nr) % nt) + 1,
             race_number |-> numbers[((k - 1) % nr) + 1]]]

\* the race cards _create_sample_races walks through
SampleCards(tracks1) == CardsOf(tracks1, SampleDayOffsets, SampleRaceNumbers)

\* RaceExists without the lookup: every card is taken to be missing
RaceExists_Unchecked(B, card) == FALSE

\* db.query(Race).filter(track_id, race_date, race_number).first() is not None
RaceExists(B, card) ==
    \E r \in DOMAIN B : /\ r.track_id = card.track_id
                        /\ r.race_date = card.race_date
                        /\ r.race_number = card.race_number

\* SamplePostTime without the carry of the minutes into the hour
SamplePostTime_NoCarry(race_date, race_num) ==
    [date |-> race_date,
     hour |-> SampleBaseHour,
     minute |-> race_num * SampleMinutesPerRace]

\* post_time: base_hour 19, race_num * 15 minutes later
SamplePostTime(race_date, race_num) ==
    LET total_minutes == race_num * SampleMinutesPerRace
    IN  [date |-> race_date,
         hour |-> SampleBaseHour + (total_minutes \div 60),
         minute |-> total_minutes % 60]

\* SampleRace with the race of today taken for finished as well
SampleRace_TodayFinished(id, card) ==
    [id |-> id, track_id |-> card.track_id, race_number |-> card.race_number,
     race_date |-> card.race_date,
     post_time |-> SamplePostTime(card.race_date, card.race_number),
     purse |-> SamplePurse,
     status |-> IF card.race_date <= today THEN "finished" ELSE "scheduled",
     created_at |-> today]

\* Race(...) of _create_sample_races; created_at is the server default now()
SampleRace(id, card) ==
    [id |-> id, track_id |-> card.track_id, race_number |-> card.race_number,
     race_date |-> card.race_date,
     post_time |-> SamplePostTime(card.race_date, card.race_number),
     purse |-> SamplePurse,
     status |-> IF card.race_date < today THEN "finished" ELSE "scheduled",
     created_at |-> today]

\* SampleEarnings paying a sixth place as well
SampleEarnings_SixPaid(fin) ==
    IF fin <= PayoutThreshold + 1 THEN SamplePurse \div (2 ^ (fin - 1)) ELSE 0

\* 15000.00 / (2 ** (finish_position - 1)) if finish_position <= 5 else 0
SampleEarnings(fin) ==
    IF fin <= PayoutThreshold THEN SamplePurse \div (2 ^ (fin - 1)) ELSE 0

\* the smallest of three numbers: the length of zip(horses, drivers, trainers)
ZipLen(a, b, c) ==
    IF a <= b /\ a <= c THEN a ELSE IF b <= c THEN b ELSE c

\* the random draws made for one race: the three samples, and per entry the
\* element positions[i] of its own shuffle, the final odds and the finish time
RaceDraws(nh, nd, nt, finished) ==
    LET sh == RandomSample(nh)
        sd == RandomSample(nd)
        st == RandomSample(nt)
        n == ZipLen(IF nh < SampleSize THEN nh ELSE SampleSize,
                    IF nd < SampleSize THEN nd ELSE SampleSize,
                    IF nt < SampleSize THEN nt ELSE SampleSize)
    IN  [horses : sh, drivers : sd, trainers : st,
         positions : IF finished THEN [1..n -> FinishPositionInputs]
                     ELSE {[i \in 1..n |-> NULL]},
         final_odds : IF finished THEN [1..n -> FinalOddsInputs]
                      ELSE {[i \in 1..n |-> NULL]},
         finish_time : IF finished THEN [1..n -> FinishTimeInputs]
                       ELSE {[i \in 1..n |-> NULL]}]

\* RaceEntry(...) number i (from 1) of a race, with the results of a finished
\* race; an entry of a scheduled race keeps the column defaults
SampleEntry(race, i, draw) ==
    [race_id |-> race.id,
     horse_id |-> draw.horses[i],
     driver_id |-> draw.drivers[i],
     trainer_id |-> draw.trainers[i],
     post_position |-> i,
     finish_position |-> IF race.status = "finished" THEN draw.positions[i]
                         ELSE NULL,
     final_odds |-> IF race.status = "finished" THEN draw.final_odds[i]
                    ELSE NULL,
     finish_time |-> IF race.status = "finished" THEN draw.finish_time[i]
                     ELSE NULL,
     earnings |-> IF race.status = "finished"
                  THEN SampleEarnings(draw.positions[i]) ELSE NULL,
     scratched |-> FALSE]

\* the body of the loop for one card: nothing for a race that exists, else the
\* race and its entries; st is [races, entries, races_updated, entries_updated]
CreateSampleRace(st, card, nh, nd, nt) ==
    IF RaceExists(st.races, card) THEN {st}
    ELSE LET race == SampleRace(MaxOf({r.id : r \in DOMAIN st.races}) + 1, card)
         IN  {[races |-> st.races (+) SetToBag({race}),
               entries |-> st.entries (+)
                   SetToBag({SampleEntry(race, i, draw) :
                                i \in 1..ZipLen(Len(draw.horses),
                                                Len(draw.drivers),
                                                Len(draw.trainers))}),
               races_updated |-> st.races_updated + 1,
               entries_updated |-> st.entries_updated
                   + ZipLen(Len(draw.horses), Len(draw.drivers),
                            Len(draw.trainers))]
                 : draw \in RaceDraws(nh, nd, nt, race.status = "finished")}

RECURSIVE CreateSampleRacesLoop(_, _, _, _, _)
\* the three nested loops over the cards still to be walked through
CreateSampleRacesLoop(st, cards, nh, nd, nt) ==
    IF cards = <<>> THEN {st}
    ELSE UNION {CreateSampleRacesLoop(s1, Tail(cards), nh, nd, nt)
                   : s1 \in CreateSampleRace(st, Head(cards), nh, nd, nt)}

\* _create_sample_races: every store and pair of counters it may end with
CreateSampleRaces(tracks1, horses1, drivers1, trainers1) ==
    LET st == [races |-> races, entries |-> entries, races_updated |-> 0,
               entries_updated |-> 0]
    IN  IF tracks1 = <<>> \/ horses1 = <<>> \/ drivers1 = <<>>
           \/ trainers1 = <<>>
        THEN {st}
        ELSE CreateSampleRacesLoop(st, SampleCards(tracks1), Len(horses1),
                                   Len(drivers1), Len(trainers1))

\* the NULL of the Text column error_message, apart from every message
NoMessage == "<NULL>"

\* _record_fetch: one more row of data_fetches; completed_at is kept by its day
RecordFetch(status, records_processed, error_message) ==
    Append(fetches, [source |-> "all_sources", fetch_type |-> "complete",
                     fetch_date |-> today, status |-> status,
                     records_processed |-> records_processed,
                     error_message |-> error_message,
                     completed_at |-> today])

\* POST /api/data/fetch, DataFetcher.fetch_latest_data: the tracks, the real
\* data, then (real data never succeeds) the sample rosters and races, and the
\* record of the fetch.  The response is the dict `results`; the fields outcome
\* and sample_run are no part of it: they keep what the scraping came to and
\* whether _fetch_sample_data was run.
FetchLatestData(outcome) ==
    LET tracks1 == InitializeTracks(tracks)
        real == FetchRealData(outcome)
        horses1 == EnsureRows(horses, "registration_number", SampleHorses)
        drivers1 == EnsureRows(drivers, "license_number", SampleDrivers)
        trainers1 == EnsureRows(trainers, "license_number", SampleTrainers)
    IN  IF NeedsSampleData(real)
        THEN \E st \in CreateSampleRaces(tracks1, horses1, drivers1, trainers1) :
                /\ tracks' = tracks1
                /\ horses' = horses1
                /\ drivers' = drivers1
                /\ trainers' = trainers1
                /\ races' = st.races
                /\ entries' = st.entries
                /\ fetches' = RecordFetch("success",
                                  st.races_updated + st.entries_updated,
                                  NoMessage)
                /\ resp' = [op |-> "fetch_latest_data",
                            outcome |-> outcome,
                            tracks_updated |-> 1,
                            horses_updated |-> Len(horses1) - Len(horses),
                            drivers_updated |-> Len(drivers1) - Len(drivers),
                            trainers_updated |-> Len(trainers1) - Len(trainers),
                            races_updated |-> st.races_updated,
                            entries_updated |-> st.entries_updated,
                            errors |-> real.errors,
                            sample_run |-> TRUE]
                /\ UNCHANGED <<today, nulls_largest>>
        ELSE /\ tracks' = tracks1
             /\ fetches' = RecordFetch("success", 0, NoMessage)
             /\ resp' = [op |-> "fetch_latest_data", outcome |-> outcome,
                         tracks_updated |-> 1, horses_updated |-> 0,
                         drivers_updated |-> 0, trainers_updated |-> 0,
                         races_updated |-> 0, entries_updated |-> 0,
                         errors |-> real.errors, sample_run |-> FALSE]
             /\ UNCHANGED <<horses, drivers, trainers, entries, races, today,
                            nulls_largest>>

\* the attributes of the mapped class Trainer and the keyword arguments of
\* Trainer(...) in generate_and_store_sample_data
TrainerColumns ==
    {"id", "name", "license_number", "birth_date", "hometown", "active",
     "created_at", "updated_at", "race_entries"}
GeneratedTrainerKwargs ==
    {"name", "license_number", "stable_name", "phone", "email"}

\* the declarative constructor raises TypeError for a keyword that is no
\* attribute of the class
ConstructorRaises(columns, kwargs) == ~(kwargs \subseteq columns)

\* generate_and_store_sample_data: the five DELETEs are committed, then the
\* first Trainer(...) raises, so no row is added and no later statement is
\* run; the handler rolls back (nothing is pending) and returns the failure.
GenerateAndStoreSampleData(outcome) ==
    /\ ConstructorRaises(TrainerColumns, GeneratedTrainerKwargs)
    /\ entries' = EmptyBag
    /\ races' = EmptyBag
    /\ horses' = <<>>
    /\ drivers' = <<>>
    /\ trainers' = <<>>
    /\ resp' = [op |-> "fetch_and_store_real_data", outcome |-> outcome,
                success |-> FALSE, error |-> "TypeError",
                data_source |-> "sample", sample_run |-> TRUE]
    /\ UNCHANGED <<tracks, fetches, today, nulls_largest>>

\* POST /api/data/fetch-real, DataFetcher.fetch_and_store_real_data.  With
\* scraped races: the tracks, then _process_real_races (which stores nothing),
\* and a success carrying `results`; otherwise the sample generation.
FetchAndStoreRealData(outcome) ==
    LET real_data == FetchRealOntarioData(outcome)
    IN  IF real_data.data_quality = "real" /\ real_data.total_races > 0
        THEN /\ tracks' = InitializeTracks(tracks)
             /\ resp' = [op |-> "fetch_and_store_real_data",
                         outcome |-> outcome, success |-> TRUE,
                         data_source |-> "real",
                         statistics |->
                             [races_updated |-> 0, horses_updated |-> 0,
                              drivers_updated |-> 0, trainers_updated |-> 0,
                              entries_updated |-> 0,
                              errors |-> ProcessRealRaces(real_data.scraped).errors],
                         total_races |-> real_data.total_races,
                         sample_run |-> FALSE]
             /\ UNCHANGED <<fetches, horses, drivers, trainers, entries, races,
                            today, nulls_largest>>
        ELSE GenerateAndStoreSampleData(outcome)

(***************************************************************************)
(* Specification of the data ingestion.                                    *)
(***************************************************************************)
\* the tables after Base.metadata.create_all on a new database
InitIngest ==
    /\ inflight = EmptyBag
    /\ tracks = <<>>
    /\ fetches = <<>>
    /\ horses = <<>>
    /\ drivers = <<>>
    /\ trainers = <<>>
    /\ entries = EmptyBag
    /\ races = EmptyBag
    /\ today = 0
    /\ nulls_largest = FALSE      \* no query of this specification sorts
    /\ resp = NoResp

CallFetchLatestData ==
    /\ Len(fetches) < MaxFetches
    /\ UNCHANGED inflight
    /\ \E outcome \in FetchOutcomes : FetchLatestData(outcome)

CallFetchAndStoreRealData ==
    /\ UNCHANGED inflight
    /\ \E outcome \in FetchOutcomes : FetchAndStoreRealData(outcome)

\* the values date.today() takes while the server runs
ClockDays == {0, 1}

\* midnight: date.today() is one day later
Tick ==
    /\ today + 1 \in ClockDays
    /\ today' = today + 1
    /\ resp' = NoResp
    /\ UNCHANGED <<inflight, tracks, fetches, horses, drivers, trainers, entries, races,
                   nulls_largest>>

NextIngest ==
    \/ CallFetchLatestData
    \/ CallFetchAndStoreRealData
    \/ Tick

SpecIngest == InitIngest /\ [][NextIngest]_vars

(***************************************************************************)
(* _create_sample_races over the whole card of a day: the eight races of   *)
(* range(1, 9), on a store whose rosters hold one row each.  The run is    *)
(* followed card by card; the tables are those the session of the run      *)
(* sees, and the run in `inflight` keeps the cards still to come and the   *)
(* counters of `results`.                                                  *)
(***************************************************************************)
\* range(1, 9)
FullRaceNumbers == <<1, 2, 3, 4, 5, 6, 7, 8>>

\* the four queries, the test of the rosters and race_dates
BeginCreateSampleRaces ==
    /\ inflight = EmptyBag
    /\ inflight' = SetToBag({
           [op |-> "create_sample_races",
            cards |-> IF tracks = <<>> \/ horses = <<>> \/ drivers = <<>>
                         \/ trainers = <<>>
                      THEN <<>>
                      ELSE CardsOf(tracks, SampleDayOffsets, FullRaceNumbers),
            races_updated |-> 0, entries_updated |-> 0]})
    /\ resp' = NoResp
    /\ UNCHANGED <<tracks, fetches, horses, drivers, trainers, entries, races,
                   today, nulls_largest>>

\* one pass of the innermost loop: the existence query and, for a card that
\* has no race, the race and its entries
CreateSampleRaceOfNextCard ==
    \E run \in DOMAIN inflight :
        /\ run.op = "create_sample_races"
        /\ run.cards # <<>>
        /\ \E st \in CreateSampleRace(
                        [races |-> races, entries |-> entries,
                         races_updated |-> run.races_updated,
                         entries_updated |-> run.entries_updated],
                        Head(run.cards), Len(horses), Len(drivers),
                        Len(trainers)) :
               /\ races' = st.races
               /\ entries' = st.entries
               /\ inflight' = SetToBag({
                      [op |-> "create_sample_races", cards |-> Tail(run.cards),
                       races_updated |-> st.races_updated,
                       entries_updated |-> st.entries_updated]})
        /\ resp' = NoResp
        /\ UNCHANGED <<tracks, fetches, horses, drivers, trainers, today,
                       nulls_largest>>

\* db.commit() after the last card
CommitCreateSampleRaces ==
    \E run \in DOMAIN inflight :
        /\ run.op = "create_sample_races"
        /\ run.cards = <<>>
        /\ inflight' = EmptyBag
        /\ resp' = [op |-> "create_sample_races",
                    races_updated |-> run.races_updated,
                    entries_updated |-> run.entries_updated]
        /\ UNCHANGED <<tracks, fetches, horses, drivers, trainers, entries,
                       races, today, nulls_largest>>

\* the catalog of tracks and the first row of each roster, no race yet
InitFullCard ==
    /\ inflight = EmptyBag
    /\ tracks = InitializeTracks(<<>>)
    /\ fetches = <<>>
    /\ horses = EnsureRows(<<>>, "registration_number", <<SampleHorses[1]>>)
    /\ drivers = EnsureRows(<<>>, "license_number", <<SampleDrivers[1]>>)
    /\ trainers = EnsureRows(<<>>, "license_number", <<SampleTrainers[1]>>)
    /\ entries = EmptyBag
    /\ races = EmptyBag
    /\ today = 0
    /\ nulls_largest = FALSE      \* no query of this specification sorts
    /\ resp = NoResp

NextFullCard ==
    \/ BeginCreateSampleRaces
    \/ CreateSampleRaceOfNextCard
    \/ CommitCreateSampleRaces

SpecFullCard == InitFullCard /\ [][NextFullCard]_vars

(***************************************************************************)
(* Runs of fetch_latest_data in which an operation of the store raises.    *)
(* The tables are what is committed; a run holds its uncommitted rows in   *)
(* the session until a commit.  The handler of fetch_latest_data does not  *)
(* roll back: it adds the 'failed' record and commits the same session.    *)
(***************************************************************************)
\* what a raising operation leaves of the transaction of the session:
\*   "kept"        the statement failed, the transaction is intact: the commit
\*                 of the handler commits the pending rows and the record
\*   "rolled_back" a commit failed and rolled back: the commit of the handler
\*                 commits the record alone
\*   "raises"      a flush failed or the connection is lost: the commit of the
\*                 handler raises, fetch_latest_data raises, nothing is stored
QueryAftermaths == {"kept", "raises"}
FlushAftermaths == {"raises"}
CommitAftermaths == {"rolled_back", "raises"}

\* the tables and the counters of `results` as a run sees them
RunState(tracks1, horses1, drivers1, trainers1, st) ==
    [tracks |-> tracks1, horses |-> horses1, drivers |-> drivers1,
     trainers |-> trainers1, races |-> st.races, entries |-> st.entries,
     races_updated |-> st.races_updated,
     entries_updated |-> st.entries_updated]

\* FaultedAt with the rows of a rolled back transaction left in the tables
FaultedAt_FlushedStays(at, aftermaths, committed, pendings) ==
    {[at |-> at, aftermath |-> a, committed |-> p, pending |-> p]
        : a \in aftermaths, p \in pendings}

\* the runs that fail at one operation: what was committed before it and what
\* the session holds
FaultedAt(at, aftermaths, committed, pendings) ==
    {[at |-> at, aftermath |-> a, committed |-> committed, pending |-> p]
        : a \in aftermaths, p \in pendings}

\* the operations of the store in a run of fetch_latest_data, in program
\* order: the first query and the commit of _initialize_tracks and of
\* _fetch_sample_data, the query and the flush of every card and the commit
\* of _create_sample_races, and the commit of _record_fetch
FaultedRuns ==
    LET st0 == [races |-> races, entries |-> entries, races_updated |-> 0,
                entries_updated |-> 0]
        tracks1 == InitializeTracks(tracks)
        horses1 == EnsureRows(horses, "registration_number", SampleHorses)
        drivers1 == EnsureRows(drivers, "license_number", SampleDrivers)
        trainers1 == EnsureRows(trainers, "license_number", SampleTrainers)
        s0 == RunState(tracks, horses, drivers, trainers, st0)
        s1 == RunState(tracks1, horses, drivers, trainers, st0)
        s2 == RunState(tracks1, horses1, drivers1, trainers1, st0)
        cards == SampleCards(tracks1)
        \* the stores the loop may hold after the first k cards
        loop == [k \in 0..Len(cards) |->
                    CreateSampleRacesLoop(st0, SubSeq(cards, 1, k),
                        Len(horses1), Len(drivers1), Len(trainers1))]
        After(k) ==
            {RunState(tracks1, horses1, drivers1, trainers1, st) :
                st \in loop[k]}
        \* the race of card k added and flushed, none of its entries yet
        Created(k) ==
            {RunState(tracks1, horses1, drivers1, trainers1,
                      [st EXCEPT !.races = st.races (+) SetToBag({
                           SampleRace(MaxOf({r.id : r \in DOMAIN st.races}) + 1,
                                      cards[k])})]) :
                st \in {x \in loop[k - 1] : ~RaceExists(x.races, cards[k])}}
    IN  FaultedAt("tracks_query", QueryAftermaths, s0, {s0})
        \cup FaultedAt("tracks_commit", CommitAftermaths, s0, {s1})
        \cup FaultedAt("rosters_query", QueryAftermaths, s1, {s1})
        \cup FaultedAt("rosters_commit", CommitAftermaths, s1, {s2})
        \cup UNION {FaultedAt("race_query", QueryAftermaths, s2, After(k - 1))
                       : k \in DOMAIN cards}
        \cup UNION {FaultedAt("race_flush", FlushAftermaths, s2, Created(k))
                       : k \in DOMAIN cards}
        \cup FaultedAt("races_commit", CommitAftermaths, s2, After(Len(cards)))
        \cup UNION {FaultedAt("record_commit", CommitAftermaths, s3, {s3})
                       : s3 \in After(Len(cards))}

\* fetch_latest_data when an operation of the store raises.  The exception
\* reaches `except Exception`, which appends the error and calls
\* _record_fetch(..., 'failed', 0, str(e)) on the session as it is; when that
\* commit raises too, the endpoint answers 500.
FetchLatestDataFaulted(outcome, run) ==
        LET stored == IF run.aftermath = "kept" THEN run.pending
                      ELSE run.committed
        IN  /\ tracks' = stored.tracks
            /\ horses' = stored.horses
            /\ drivers' = stored.drivers
            /\ trainers' = stored.trainers
            /\ races' = stored.races
            /\ entries' = stored.entries
            /\ fetches' = IF run.aftermath = "raises" THEN fetches
                          ELSE RecordFetch("failed", 0, "store error")
            /\ resp' = IF run.aftermath = "raises"
                       THEN [op |-> "fetch_latest_data_raised",
                             outcome |-> outcome, failed_at |-> run.at,
                             status_code |-> 500]
                       ELSE [op |-> "fetch_latest_data_failed",
                             outcome |-> outcome, failed_at |-> run.at,
                             races_updated |-> run.pending.races_updated,
                             entries_updated |-> run.pending.entries_updated,
                             errors |-> FetchRealData(outcome).errors
                                        \o <<"store error">>]
            /\ UNCHANGED <<inflight, today, nulls_largest>>

(***************************************************************************)
(* DataFetcher.get_data_status.  The timestamps are kept by their day; the *)
(* hours between two of them are any the days allow.                       *)
(***************************************************************************)
\* LastSuccessfulFetch without the filter on the status
LastSuccessfulFetch_AnyStatus(table) ==
    IF table = <<>> THEN NULL
    ELSE MaxOf({table[i].completed_at : i \in DOMAIN table})

\* filter(DataFetch.status == 'success').order_by(completed_at.desc())
\* .first(): completed_at of the last successful fetch, NULL for none
LastSuccessfulFetch(table) ==
    LET succ == {i \in DOMAIN table : table[i].status = "success"}
    IN  IF succ = {} THEN NULL
        ELSE MaxOf({table[i].completed_at : i \in succ})

\* if hours_since_fetch < 2 ... elif hours_since_fetch < 24 ...
FreshHours == 2
StaleHours == 24
DataFreshness(hours_since_fetch) ==
    IF hours_since_fetch < FreshHours THEN "fresh"
    ELSE IF hours_since_fetch < StaleHours THEN "stale"
    ELSE "outdated"

\* (datetime.now() - last_fetch.completed_at).total_seconds() / 3600: the
\* whole hours between a moment of the day completed_at and one of today
HoursSince(completed_at) ==
    {h \in 0..(24 * (today - completed_at) + 23) :
        h > 24 * (today - completed_at) - 24}

\* the response of get_data_status.  completed_at is a
\* DateTime(timezone=True) written from a naive datetime.now(): a store
\* that returns it with a time zone makes the subtraction from
\* datetime.now() raise TypeError.
DataStatusOutcomes ==
    LET last_fetch == LastSuccessfulFetch(fetches)
        counts == [total_races |-> SqlCount(races),
                   total_horses |->
                       Cardinality({i \in DOMAIN horses : horses[i].active}),
                   total_drivers |->
                       Cardinality({i \in DOMAIN drivers : drivers[i].active}),
                   total_trainers |->
                       Cardinality({i \in DOMAIN trainers : trainers[i].active})]
    IN  IF last_fetch = NULL
        THEN {[op |-> "get_data_status", status |-> "ok",
               last_fetch |-> NULL, data_freshness |-> "outdated"] @@ counts}
        ELSE {[op |-> "get_data_status", status |-> "ok",
               last_fetch |-> last_fetch,
               data_freshness |-> DataFreshness(h)] @@ counts
                 : h \in HoursSince(last_fetch)}
             \cup {[op |-> "get_data_status", status |-> "error",
                    error |-> "TypeError"]}

\* GET /api/data/status
GetDataStatus ==
    /\ resp' \in DataStatusOutcomes
    /\ UNCHANGED <<inflight, tracks, fetches, horses, drivers, trainers,
                   entries, races, today, nulls_largest>>

(***************************************************************************)
(* Specification of the data ingestion on a store that may fail.           *)
(***************************************************************************)
\* what the scraping comes to in the runs of this specification
FaultOutcomes == {"timeout", "races"}

NextFaults ==
    \/ /\ Len(fetches) < MaxFetchesFaults
       /\ UNCHANGED inflight
       /\ \E outcome \in FaultOutcomes : FetchLatestData(outcome)
    \/ /\ Len(fetches) < MaxFetchesFaults
       /\ \E run \in FaultedRuns, outcome \in FaultOutcomes :
              FetchLatestDataFaulted(outcome, run)
    \/ /\ UNCHANGED inflight
       /\ \E outcome \in FaultOutcomes : FetchAndStoreRealData(outcome)

SpecFaults == InitIngest /\ [][NextFaults]_vars

(***************************************************************************)
(* Specification of the audit records and the data status: runs of         *)
(* fetch_latest_data with or without a failure of the store, midnights,    *)
(* and reads of the status.                                                *)
(***************************************************************************)
\* The runs are requested on the first day and the status is read on every
\* day of the clock.  The store fails outside the loop of
\* _create_sample_races (failures inside it are the subject of SpecFaults).
NextStatus ==
    \/ /\ Len(fetches) < MaxFetchesStatus
       /\ today = 0
       /\ UNCHANGED inflight
       /\ FetchLatestData("timeout")
    \/ /\ Len(fetches) < MaxFetchesStatus
       /\ today = 0
       /\ \E run \in {r \in FaultedRuns :
                          r.at \in {"tracks_query", "tracks_commit",
                                    "rosters_query", "rosters_commit",
                                    "record_commit"}} :
              FetchLatestDataFaulted("timeout", run)
    \/ GetDataStatus
    \/ Tick

SpecStatus == InitIngest /\ [][NextStatus]_vars

(***************************************************************************)
(* Recent form: the last query of HorseService.get_horse_stats.            *)
(***************************************************************************)
\* RaceEntry.race: the row of races an entry refers to
RaceOfEntry(e) == CHOOSE r \in DOMAIN races : r.id = e.race_id

\* .limit(5)
RecentFormLimit == 5

Digits == <<"0", "1", "2", "3", "4", "5", "6", "7", "8", "9">>

RECURSIVE DecimalString(_)
\* str(n) of a non-negative integer
DecimalString(n) ==
    IF n < 10 THEN Digits[n + 1]
    ELSE DecimalString(n \div 10) \o Digits[(n % 10) + 1]

\* str(race.finish_position) if race.finish_position else 'DNF': None and 0
\* are the falsy values
FormString(fin) ==
    IF fin # NULL /\ fin # 0 THEN DecimalString(fin) ELSE "DNF"

\* RecentFormRows without the filter on scratched
RecentFormRows_WithScratched(horse_id) ==
    UNION {{<<e, k>> : k \in 1..entries[e]} :
              e \in {x \in DOMAIN entries :
                        /\ x.horse_id = horse_id
                        /\ \E r \in DOMAIN races : r.id = x.race_id}}

\* RaceEntry JOIN Race, filter(horse_id), filter(scratched == False): the
\* joined rows, a row of multiplicity m as the pairs <<row, 1>> .. <<row, m>>
RecentFormRows(horse_id) ==
    UNION {{<<e, k>> : k \in 1..entries[e]} :
              e \in {x \in DOMAIN entries :
                        /\ x.horse_id = horse_id
                        /\ x.scratched = FALSE
                        /\ \E r \in DOMAIN races : r.id = x.race_id}}

\* order_by(desc(Race.race_date), desc(Race.race_number)): row a is strictly
\* before row b
MoreRecent(a, b) ==
    LET ra == RaceOfEntry(a[1])
        rb == RaceOfEntry(b[1])
    IN  \/ ra.race_date > rb.race_date
        \/ ra.race_date = rb.race_date /\ ra.race_number > rb.race_number

RECURSIVE OrderByRecent(_)
\* every order the store may return the rows in: rows of the same race date
\* and race number come in whatever order the store produces them
OrderByRecent(R) ==
    IF R = {} THEN {<<>>}
    ELSE UNION {{<<m>> \o t : t \in OrderByRecent(R \ {m})} :
                   m \in {x \in R : \A y \in R : ~MoreRecent(y, x)}}

\* the first `limit` elements of a sequence
FirstRows(s, limit) == IF Len(s) <= limit THEN s ELSE SubSeq(s, 1, limit)

\* recent_form: every list the query and the comprehension may give
RecentForm(horse_id) ==
    {[i \in DOMAIN FirstRows(s, RecentFormLimit) |->
         FormString(s[i][1].finish_position)]
        : s \in OrderByRecent(RecentFormRows(horse_id))}

\* get_horse_stats with the recent form: the response model with recent_form
HorseStatsWithForm(horse_id) ==
    {[recent_form |-> form] @@ HorseStatsResult(horse_id)
        : form \in RecentForm(horse_id)}

\* GET /api/horses/{horse_id}/stats on a store whose entries refer to races
GetHorseStatsWithForm(horse_id) ==
    /\ resp' \in HorseStatsWithForm(horse_id)
    /\ UNCHANGED <<inflight, tracks, fetches, horses, drivers, trainers, entries, races,
                   today, nulls_largest>>

(***************************************************************************)
(* Specification of the recent form.                                       *)
(***************************************************************************)
FinInputsForm == {NULL, 1}
\* the horse whose entries vary, and the races the other horse may enter
FormHorse == 1
OtherHorseRaces == {2}

\* race k of the store: three races a day at two tracks, numbered 1, 1 and 2,
\* each day one day before the last
FormRace(k) ==
    [id |-> k] @@ RaceRow(1 + (((k - 1) % 3) % 2), 1 + (((k - 1) % 3) \div 2),
                          0 - ((k - 1) \div 3), SamplePurse)

\* a store with the catalog, the rosters and the races, before any entry
InitForm ==
    /\ inflight = EmptyBag
    /\ tracks = [i \in DOMAIN TrackCatalog |->
                    [name |-> TrackCatalog[i], active |-> TRUE]]
    /\ fetches = <<>>
    /\ horses = [h \in HorseIds |-> [active |-> TRUE]]
    /\ drivers = [d \in DriverIds |-> [active |-> TRUE]]
    /\ trainers = [t \in TrainerIds |-> [active |-> TRUE]]
    /\ entries = EmptyBag
    /\ races = SetToBag({FormRace(k) : k \in 1..MaxRacesForm})
    /\ today = 0
    /\ nulls_largest = FALSE      \* race_date and race_number are NOT NULL
    /\ resp = NoResp

\* db.add(RaceEntry(...)) for a horse that has no entry in the race yet (the
\* horses of a race are sampled without replacement); a scratched entry has
\* no result
AddEntryForm ==
    \E r \in DOMAIN races, h \in HorseIds, fin \in FinInputsForm,
       scr \in BOOLEAN :
        /\ ~\E e \in DOMAIN entries : e.race_id = r.id /\ e.horse_id = h
        /\ h # FormHorse => (r.id \in OtherHorseRaces /\ fin = 1 /\ ~scr)
        /\ scr => fin = NULL
        /\ entries' = entries (+) SetToBag({
               [race_id |-> r.id] @@
               EntryRow(h, 1, 1, fin,
                        IF fin = NULL THEN NULL ELSE SampleEarnings(fin), scr)})
        /\ resp' = NoResp
        /\ UNCHANGED <<inflight, tracks, fetches, horses, drivers, trainers, races, today,
                       nulls_largest>>

CallHorseStatsWithForm == \E id \in IdInputs : GetHorseStatsWithForm(id)

NextForm ==
    \/ CallHorseStatsWithForm
    \/ AddEntryForm

SpecForm == InitForm /\ [][NextForm]_vars

(***************************************************************************)
(* Best time: the second query of HorseService.get_horse_stats.  A         *)
(* finish_time is a String(20); a string is kept as the sequence of the    *)
(* code points of its characters, and the NULL of a String column as the   *)
(* sequence NullString, which is the code points of no string.             *)
(***************************************************************************)
NullString == <<NULL>>

RECURSIVE DecimalCodes(_)
\* str(n) of a non-negative integer, as code points ('0' is 48)
DecimalCodes(n) ==
    IF n < 10 THEN <<48 + n>>
    ELSE DecimalCodes(n \div 10) \o <<48 + (n % 10)>>

\* f"1:{seconds}.{hundredths}" of _create_sample_races (':' is 58, '.' is 46)
FinishTimeString(seconds, hundredths) ==
    <<49, 58>> \o DecimalCodes(seconds) \o <<46>> \o DecimalCodes(hundredths)

\* a < b for two strings: the order of order_by on a String column
StringBefore(a, b) ==
    \/ \E i \in 1..Len(a) :
          /\ i <= Len(b)
          /\ \A j \in 1..(i - 1) : a[j] = b[j]
          /\ a[i] < b[i]
    \/ /\ Len(a) < Len(b)
       /\ \A j \in 1..Len(a) : a[j] = b[j]

\* filter(horse_id), filter(finish_time.isnot(None)),
\* filter(finish_position == 1): the query has no filter on scratched
BestTimeRows(horse_id) ==
    {e \in DOMAIN entries : /\ e.horse_id = horse_id
                            /\ e.finish_time # NullString
                            /\ e.finish_position = 1}

\* order_by(RaceEntry.finish_time).first(), and
\* best_time_result.finish_time if best_time_result else None
BestTime(horse_id) ==
    LET times == {e.finish_time : e \in BestTimeRows(horse_id)}
    IN  IF times = {} THEN NullString
        ELSE CHOOSE t \in times : \A u \in times : ~StringBefore(u, t)

\* get_horse_stats with the best time: the response model with best_time
HorseStatsWithBestTime(horse_id) ==
    [best_time |-> BestTime(horse_id)] @@ HorseStatsResult(horse_id)

\* GET /api/horses/{horse_id}/stats on a store whose entries carry finish times
GetHorseStatsWithBestTime(horse_id) ==
    /\ resp' = HorseStatsWithBestTime(horse_id)
    /\ UNCHANGED <<inflight, tracks, fetches, horses, drivers, trainers, entries, races,
                   today, nulls_largest>>

(***************************************************************************)
(* Specification of the best time.                                         *)
(***************************************************************************)
FinInputsBest == {NULL, 1, 2}
\* no time, and two of the strings the generator writes: "1:50.99", "1:59.10"
FinishTimeInputsBest ==
    {NullString, FinishTimeString(50, 99), FinishTimeString(59, 10)}

InitBest ==
    /\ InitStore
    /\ horses = [h \in HorseIds |-> [active |-> TRUE]]
    /\ drivers = [d \in DriverIds |-> [active |-> TRUE]]
    /\ trainers = [t \in TrainerIds |-> [active |-> TRUE]]
    /\ nulls_largest = FALSE      \* the sorted column is filtered to non-NULL

\* db.add(RaceEntry(...)); db.commit() with a finish time
AddEntryBest ==
    /\ BagCardinality(entries) < MaxEntriesBest
    /\ \E h \in HorseIds, fin \in FinInputsBest, ft \in FinishTimeInputsBest,
          scr \in BOOLEAN :
            /\ entries' = entries (+) SetToBag({
                   [finish_time |-> ft] @@
                   EntryRow(h, 1, 1, fin,
                            IF fin = NULL THEN NULL ELSE SampleEarnings(fin),
                            scr)})
            /\ resp' = NoResp
            /\ UNCHANGED <<inflight, tracks, fetches, horses, drivers, trainers, races,
                           today, nulls_largest>>

NextBest ==
    \/ \E id \in IdInputs : GetHorseStatsWithBestTime(id)
    \/ AddEntryBest

SpecBest == InitBest /\ [][NextBest]_vars

(***************************************************************************)
(* The whole of get_horse_stats next to a run of the data fetcher.  The    *)
(* endpoints are coroutines of one event loop: a handler runs from one     *)
(* await that suspends to the next without any other handler in between.   *)
(* get_horse_stats has no await; a run of the data fetcher is suspended    *)
(* while it awaits the scraping.                                           *)
(***************************************************************************)
\* get_horse_stats: the aggregates, the best time and the recent form
HorseStatsFull(horse_id) ==
    {[best_time |-> BestTime(horse_id), recent_form |-> form]
        @@ HorseStatsResult(horse_id) : form \in RecentForm(horse_id)}

\* GET /api/horses/{horse_id}/stats: the three queries, one after the other
GetHorseStatsFull(horse_id) ==
    /\ resp' \in HorseStatsFull(horse_id)
    /\ UNCHANGED <<inflight, tracks, fetches, horses, drivers, trainers,
                   entries, races, today, nulls_largest>>

\* POST /api/data/fetch-real up to `await self.fetch_real_ontario_data()`:
\* nothing is read or written yet
BeginFetchAndStoreRealData ==
    /\ inflight' = inflight (+) SetToBag({[op |-> "fetch_and_store_real_data"]})
    /\ UNCHANGED <<tracks, fetches, horses, drivers, trainers, entries, races,
                   today, nulls_largest, resp>>

\* the rest of the run, from the return of the scraping to the response
ResumeFetchAndStoreRealData(outcome) ==
    /\ [op |-> "fetch_and_store_real_data"] \in DOMAIN inflight
    /\ inflight' = inflight (-) SetToBag({[op |-> "fetch_and_store_real_data"]})
    /\ FetchAndStoreRealData(outcome)

(***************************************************************************)
(* Specification of the statistics of a horse next to a generation run.    *)
(***************************************************************************)
\* the entries a race may hold for the horse: a win with its time, scratched
\* or not, and an entry without a result
EntryInputsSnapshot ==
    {[fin |-> 1, ft |-> FinishTimeString(50, 99), scr |-> FALSE],
     [fin |-> 1, ft |-> FinishTimeString(50, 99), scr |-> TRUE],
     [fin |-> NULL, ft |-> NullString, scr |-> FALSE]}

InitSnapshot ==
    /\ inflight = EmptyBag
    /\ tracks = [i \in DOMAIN TrackCatalog |->
                    [name |-> TrackCatalog[i], active |-> TRUE]]
    /\ fetches = <<>>
    /\ horses = [h \in HorseIds |-> [active |-> TRUE]]
    /\ drivers = [d \in DriverIds |-> [active |-> TRUE]]
    /\ trainers = [t \in TrainerIds |-> [active |-> TRUE]]
    /\ entries = EmptyBag
    /\ races = SetToBag({FormRace(k) : k \in 1..MaxRacesSnapshot})
    /\ today = 0
    /\ nulls_largest = FALSE      \* race_date and race_number are NOT NULL
    /\ resp = NoResp

\* db.add(RaceEntry(...)); db.commit() for the horse in a race it has no entry in
AddEntrySnapshot ==
    \E r \in DOMAIN races, x \in EntryInputsSnapshot :
        /\ ~\E e \in DOMAIN entries : e.race_id = r.id
        /\ entries' = entries (+) SetToBag({
               [race_id |-> r.id, finish_time |-> x.ft] @@
               EntryRow(FormHorse, 1, 1, x.fin,
                        IF x.fin = NULL THEN NULL ELSE SampleEarnings(x.fin),
                        x.scr)})
        /\ resp' = NoResp
        /\ UNCHANGED <<inflight, tracks, fetches, horses, drivers, trainers,
                       races, today, nulls_largest>>

NextSnapshot ==
    \/ \E id \in IdInputs : GetHorseStatsFull(id)
    \/ AddEntrySnapshot
    \/ /\ inflight = EmptyBag
       /\ BeginFetchAndStoreRealData
    \/ \E outcome \in FetchOutcomes : ResumeFetchAndStoreRealData(outcome)

SpecSnapshot == InitSnapshot /\ [][NextSnapshot]_vars

(***************************************************************************)
(* Runs of the data fetcher that overlap.  Every request has its own       *)
(* session; a run of fetch_latest_data is suspended once, in the scraping  *)
(* of _fetch_real_data, after _initialize_tracks has committed: its        *)
(* session holds no transaction then, and the queries after the scraping   *)
(* read the store as the other runs left it.                               *)
(***************************************************************************)
\* POST /api/data/fetch up to `await self.fetch_real_ontario_data()`:
\* _initialize_tracks with its commit.  begun_at remembers how many runs had
\* been recorded when this one began.
BeginFetchLatestData ==
    /\ tracks' = InitializeTracks(tracks)
    /\ inflight' = inflight (+) SetToBag({[op |-> "fetch_latest_data",
                                           begun_at |-> Len(fetches)]})
    /\ resp' = NoResp
    /\ UNCHANGED <<fetches, horses, drivers, trainers, entries, races, today,
                   nulls_largest>>

\* the rest of the run, from the return of the scraping to the response:
\* the rosters, the races with their entries and the audit record, on the
\* store of that moment (the tracks of the catalog are all there)
ResumeFetchLatestData(outcome) ==
    \E run \in DOMAIN inflight :
        /\ run.op = "fetch_latest_data"
        /\ inflight' = inflight (-) SetToBag({run})
        /\ FetchLatestData(outcome)

(***************************************************************************)
(* Specification of overlapping runs of the data fetcher.                  *)
(***************************************************************************)
NextOverlap ==
    \/ /\ BagCardinality(inflight) + Len(fetches) < MaxFetchesOverlap
       /\ BeginFetchLatestData
    \/ \E outcome \in FaultOutcomes : ResumeFetchLatestData(outcome)
    \/ /\ BagCardinality(inflight) + Len(fetches) < MaxFetchesOverlap
       /\ BeginFetchAndStoreRealData
    \/ ResumeFetchAndStoreRealData("timeout")
    \/ Tick

SpecOverlap == InitIngest /\ [][NextOverlap]_vars

(***************************************************************************)
(* What the metrics engine is specified to return, read off the table.     *)
(***************************************************************************)
\* the entity of the given kind an entry belongs to
OwnerId(e, kind) ==
    CASE kind = "horse" -> e.horse_id
      [] kind = "driver" -> e.driver_id
      [] kind = "trainer" -> e.trainer_id

EntityExists(kind, id) ==
    CASE kind = "horse" -> id \in DOMAIN horses
      [] kind = "driver" -> id \in DOMAIN drivers
      [] kind = "trainer" -> id \in DOMAIN trainers

\* the number of non-scratched entries of an entity whose finish position is
\* in the set fins
NumStarts(kind, id, fins) ==
    LET S == {e \in DOMAIN entries :
                 /\ OwnerId(e, kind) = id /\ ~e.scratched
                 /\ e.finish_position \in fins}
    IN  SumFn([e \in S |-> entries[e]])

\* every value of finish_position, NULL included
AnyFinish == {e.finish_position : e \in DOMAIN entries}

\* the earnings recorded on the non-scratched entries of an entity
SumEarnings(kind, id) ==
    LET S == {e \in DOMAIN entries :
                 OwnerId(e, kind) = id /\ ~e.scratched /\ e.earnings # NULL}
    IN  SumFn([e \in S |-> e.earnings * entries[e]])

CountsAsSpecified(r) ==
    /\ r.total_starts = NumStarts(r.kind, r.id, AnyFinish)
    /\ r.wins = NumStarts(r.kind, r.id, {1})
    /\ r.places = NumStarts(r.kind, r.id, {2})
    /\ r.shows = NumStarts(r.kind, r.id, {3})
    /\ r.total_earnings = SumEarnings(r.kind, r.id)
    /\ r.wins + r.places + r.shows
         + NumStarts(r.kind, r.id, AnyFinish \ {1, 2, 3})
       = r.total_starts

PercentagesAsSpecified(r) ==
    /\ r.total_starts > 0 =>
          /\ r.win_percentage = Round2Pct(r.wins, r.total_starts)
          /\ r.place_percentage = Round2Pct(r.wins + r.places, r.total_starts)
          /\ r.show_percentage
               = Round2Pct(r.wins + r.places + r.shows, r.total_starts)
    /\ r.total_starts = 0 =>
          /\ r.win_percentage = 0 /\ r.place_percentage = 0
          /\ r.show_percentage = 0 /\ r.average_earnings = <<0, 1>>
    /\ 0 <= r.win_percentage
    /\ r.win_percentage <= r.place_percentage
    /\ r.place_percentage <= r.show_percentage
    /\ r.show_percentage <= 10000

\* C1 (as claimed): for every horse, driver or trainer the stats request
\* returns total_starts = the number of the entity's non-scratched entries,
\* wins / places / shows = the numbers of those finishing 1st / 2nd / 3rd and
\* total_earnings = the sum of their earnings; an entry without
\* finish_position counts as a start only, a scratched entry not at all.
C1_StatsCounts ==
    resp.op = "stats" => (resp.status = "ok" /\ CountsAsSpecified(resp))

\* The part of C1 that the code does satisfy: the counts of a horse.
HorseStatsCounts ==
    (resp.op = "stats" /\ resp.kind = "horse")
        => (resp.status = "ok" /\ CountsAsSpecified(resp))

\* C2 (as claimed): for every entity the three percentages are the rounded
\* ratios when total_starts > 0 and, like average_earnings, exactly 0 when
\* total_starts = 0; no stats request raises; and always
\* 0 <= win_percentage <= place_percentage <= show_percentage <= 100.
C2_StatsPercentages ==
    resp.op = "stats" => (resp.status = "ok" /\ PercentagesAsSpecified(resp))

\* The part of C2 that the code does satisfy: the percentages of a horse.
HorseStatsPercentages ==
    (resp.op = "stats" /\ resp.kind = "horse")
        => (resp.status = "ok" /\ PercentagesAsSpecified(resp))

\* C3 (as claimed): a stats request for an entity id that is not in the store
\* is answered with NotFound, never with a computed all-zero StatsResult.
C3_StatsNotFound ==
    (resp.op = "stats" /\ ~EntityExists(resp.kind, resp.id))
        => resp.status = "not_found"

\* reached: a horse with a win, an entry without finish position and a
\* scratched entry has been asked for
HorseStatsReached ==
    /\ resp.op = "stats" /\ resp.kind = "horse" /\ resp.status = "ok"
    /\ resp.wins = 1 /\ resp.total_starts = 2
    /\ \E e \in DOMAIN entries : e.horse_id = resp.id /\ e.scratched
    /\ \E e \in DOMAIN entries :
          e.horse_id = resp.id /\ ~e.scratched /\ e.finish_position = NULL

(***************************************************************************)
(* What the leaderboard builder is specified to return.                    *)
(***************************************************************************)
KindOf(category) ==
    CASE category = "horses" -> "horse"
      [] category = "drivers" -> "driver"
      [] category = "trainers" -> "trainer"

TableOf(category) ==
    CASE category = "horses" -> horses
      [] category = "drivers" -> drivers
      [] category = "trainers" -> trainers

StatsOf(category, id) ==
    CASE category = "horses" -> HorseStatsResult(id)
      [] category = "drivers" -> DriverStatsResult(id)
      [] category = "trainers" -> TrainerStatsResult(id)

StartsOf(category, id) == NumStarts(KindOf(category), id, AnyFinish)

TopAnswered == resp.op = "top" /\ resp.status = "ok"

\* C4: the win_rate leaderboard never lists an entity with fewer than
\* min_starts (default 5) non-scratched entries.
C4_WinRateMinStarts ==
    (TopAnswered /\ resp.metric = "win_rate") =>
        \A i \in DOMAIN resp.performers :
            StartsOf(resp.category, resp.performers[i].id) >= DefaultMinStarts

\* reached: a win_rate list with a listed horse while another horse, with
\* starts but fewer than min_starts, is left out
C4_Witness ==
    /\ TopAnswered /\ resp.metric = "win_rate" /\ resp.category = "horses"
    /\ resp.performers # <<>>
    /\ \E h \in DOMAIN horses :
          /\ StartsOf("horses", h) > 0
          /\ StartsOf("horses", h) < DefaultMinStarts
          /\ \A i \in DOMAIN resp.performers : resp.performers[i].id # h
    /\ \E e \in DOMAIN entries :
          e.horse_id = resp.performers[1].id /\ e.scratched

\* the value of the ranking metric reported in a row
ReportedValue(row, metric) ==
    IF metric = "wins" THEN row.wins ELSE row.total_earnings

\* C5 (as claimed): for the metrics wins and earnings the returned list is
\* non-increasing in the reported value of the metric, also when entities have
\* no recorded earnings, and has at most `limit` elements.
C5_NonIncreasing ==
    (TopAnswered /\ resp.metric \in {"wins", "earnings"}) =>
        /\ Len(resp.performers) <= resp.limit
        /\ \A i, j \in DOMAIN resp.performers : i < j =>
               ReportedValue(resp.performers[i], resp.metric)
                   >= ReportedValue(resp.performers[j], resp.metric)

\* The part of C5 that the code does satisfy: the wins metric, and the size.
TopByWinsNonIncreasing ==
    TopAnswered =>
        /\ Len(resp.performers) <= resp.limit
        /\ resp.metric = "wins" =>
               \A i, j \in DOMAIN resp.performers : i < j =>
                   resp.performers[i].wins >= resp.performers[j].wins

Eligible(category, metric, id) ==
    /\ TableOf(category)[id].active = TRUE
    /\ StartsOf(category, id)
           >= (IF metric = "win_rate" THEN DefaultMinStarts ELSE 1)

\* C7 (as claimed): every combination of entity kind and metric returns its
\* ranking, non-empty whenever an eligible entity of the kind exists.
C7_EveryCombination ==
    resp.op = "top" =>
        /\ resp.status = "ok"
        /\ (\E id \in DOMAIN TableOf(resp.category) :
                Eligible(resp.category, resp.metric, id))
               => resp.performers # <<>>

\* C8: every returned row belongs to an active entity and carries the
\* total_starts, wins and total_earnings that the stats request returns for
\* that entity on the same store.
C8_TopMatchesStats ==
    TopAnswered =>
        \A i \in DOMAIN resp.performers :
            LET row == resp.performers[i]
                st == StatsOf(resp.category, row.id)
            IN  /\ TableOf(resp.category)[row.id].active = TRUE
                /\ st.status = "ok"
                /\ row.total_starts = st.total_starts
                /\ row.wins = st.wins
                /\ row.total_earnings = st.total_earnings

\* reached: a row for a horse that also has a scratched entry, while an
\* inactive horse with a start is in the store
C8_Witness ==
    /\ TopAnswered /\ resp.performers # <<>>
    /\ \E e \in DOMAIN entries :
          e.horse_id = resp.performers[1].id /\ e.scratched
    /\ resp.performers[1].total_earnings > 0
    /\ \E h \in DOMAIN horses :
          horses[h].active = FALSE /\ StartsOf("horses", h) > 0

\* C9 (as claimed): a call repeated with the same kind, metric and limit on
\* the same store returns the same entities in the same order.
C9_Deterministic ==
    [][(/\ resp.op = "top" /\ resp.status = "ok"
        /\ resp'.op = "top" /\ resp'.status = "ok"
        /\ resp'.category = resp.category
        /\ resp'.metric = resp.metric
        /\ resp'.limit = resp.limit
        /\ entries' = entries /\ horses' = horses)
           => resp'.performers = resp.performers]_vars

(***************************************************************************)
(* What the trend aggregator is specified to return.                       *)
(***************************************************************************)
\* the races of one date, and the dates of the window of the answered period
RacesOn(d) == {r \in DOMAIN races : r.race_date = d}
InAnsweredWindow(d) == today - PeriodDays(resp.period) <= d /\ d <= today

\* C10: trends returns exactly one entry per date of the window that has a
\* race, in ascending date order, with race_count the number of races of the
\* date and total_purse the sum of their purses, a NULL purse counting 0; a
\* date without races has no entry and a window without races gives an empty
\* list, not an error.
C10_TrendBuckets ==
    resp.op = "trends" =>
        /\ resp.status = "ok"
        /\ {resp.data[i].date : i \in DOMAIN resp.data}
             = {r.race_date : r \in {x \in DOMAIN races :
                                        InAnsweredWindow(x.race_date)}}
        /\ \A i, j \in DOMAIN resp.data : i < j =>
               resp.data[i].date < resp.data[j].date
        /\ \A i \in DOMAIN resp.data :
               LET d == resp.data[i].date
               IN  /\ resp.data[i].race_count
                        = SumFn([r \in RacesOn(d) |-> races[r]])
                   /\ resp.data[i].race_count >= 1
                   /\ resp.data[i].total_purse
                        = SumFn([r \in RacesOn(d) |->
                                    IF r.purse = NULL THEN 0
                                    ELSE r.purse * races[r]])

\* reached: two buckets, one of them of several races with a NULL purse among
\* them
C10_Witness ==
    /\ resp.op = "trends" /\ Len(resp.data) = 2
    /\ \E i \in DOMAIN resp.data :
          /\ resp.data[i].race_count >= 2
          /\ resp.data[i].total_purse > 0
          /\ \E r \in RacesOn(resp.data[i].date) : r.purse = NULL

\* reached: an answer that leaves out a race dated outside the window
TrendsOutsideWindowReached ==
    /\ resp.op = "trends" /\ resp.data # <<>>
    /\ \E r \in DOMAIN races : ~InAnsweredWindow(r.race_date)

\* reached: a window without any race answered with an empty list
TrendsEmptyWindowReached ==
    /\ resp.op = "trends" /\ resp.status = "ok" /\ resp.data = <<>>
    /\ races # EmptyBag

\* the dates of the last n days ending today: n dates, the latest being today
InLastDays(d, n) == today - (n - 1) <= d /\ d <= today

\* C11: trends counts a race iff its race_date is one of the last 7 (week),
\* 30 (month), 90 (quarter) or 365 (year) calendar dates ending today; the
\* window holds exactly that many dates, none in the future and none older
\* than the window length.
C11_WindowLength ==
    resp.op = "trends" =>
        {resp.data[i].date : i \in DOMAIN resp.data}
          = {r.race_date : r \in {x \in DOMAIN races :
                                     InLastDays(x.race_date,
                                                PeriodDays(resp.period))}}

\* holds: no answer reports a date after today or more than the window
\* length before today
TrendsWithinClosedWindow ==
    resp.op = "trends" =>
        \A i \in DOMAIN resp.data :
            /\ resp.data[i].date <= today
            /\ resp.data[i].date >= today - PeriodDays(resp.period)

(***************************************************************************)
(* What the sample-data generator and the ingestion are specified to do.   *)
(***************************************************************************)
\* the entries of a race, and the finished races in the store
EntriesOfRace(r) == {e \in DOMAIN entries : e.race_id = r.id}
FinishedRaces == {r \in DOMAIN races : r.status = "finished"}

\* C12: in every finished race the generator created, the finish positions of
\* the N entries are a permutation of 1..N: each lies in 1..N and no two
\* non-scratched entries of the race share one.
C12_FinishPermutation ==
    \A r \in FinishedRaces :
        LET E == EntriesOfRace(r)
        IN  /\ \A e \in E : e.finish_position \in 1..Cardinality(E)
            /\ \A e1, e2 \in E :
                   (e1 # e2 /\ ~e1.scratched /\ ~e2.scratched)
                       => e1.finish_position # e2.finish_position

\* holds: every entry of a finished generated race has a finish position, one
\* of range(1, 9)
FinishedEntriesPlaced ==
    \A r \in FinishedRaces :
        \A e \in EntriesOfRace(r) : e.finish_position \in 1..8

\* C13: after any sequence of ingestion and generation runs no two rows of
\* races share (track, race_date, race_number).
C13_UniqueRaceKey ==
    /\ \A r \in DOMAIN races : races[r] = 1
    /\ \A r1, r2 \in DOMAIN races :
           (/\ r1.track_id = r2.track_id
            /\ r1.race_date = r2.race_date
            /\ r1.race_number = r2.race_number) => r1 = r2

\* reached: a run on the day after an earlier run, which found two of its
\* three cards in the store and created the third
C13_Witness ==
    /\ resp.op = "fetch_latest_data"
    /\ resp.races_updated = 1
    /\ Cardinality(DOMAIN races) = 3
    /\ Len(fetches) = 2

\* reached: a run that found every card in the store and created no race
RerunCreatesNoRace ==
    /\ resp.op = "fetch_latest_data"
    /\ resp.races_updated = 0
    /\ Cardinality(DOMAIN races) >= 2

\* C14: every entry of a finished generated race has earnings equal to the
\* purse of its race divided by 2^(finish_position - 1) when finish_position
\* is at most 5, and 0 otherwise; so no earnings are negative, and positive
\* earnings come with a finish position of at most 5.
C14_PayoutCurve ==
    /\ \A r \in FinishedRaces :
           \A e \in EntriesOfRace(r) :
               IF e.finish_position <= 5
               THEN e.earnings * (2 ^ (e.finish_position - 1)) = r.purse
               ELSE e.earnings = 0
    /\ \A e \in DOMAIN entries :
           /\ e.earnings # NULL => e.earnings >= 0
           /\ e.earnings > 0 =>
                  (e.finish_position # NULL /\ e.finish_position <= 5)

\* reached: a finished race with a fifth-placed entry paid a sixteenth of the
\* purse and a sixth-placed entry paid nothing
C14_Witness ==
    \E r \in FinishedRaces :
        \E e1, e2 \in EntriesOfRace(r) :
            /\ e1.finish_position = 5 /\ e1.earnings * 16 = r.purse
            /\ e1.earnings > 0
            /\ e2.finish_position = 6 /\ e2.earnings = 0

\* an entry that carries a result
HasResult(e) ==
    \/ e.finish_position # NULL
    \/ e.finish_time # NULL
    \/ e.final_odds # NULL
    \/ (e.earnings # NULL /\ e.earnings # 0)

\* C15: the generator gives a race dated before the day of its creation the
\* status 'finished' and a race dated that day or later the status
\* 'scheduled'; an entry carries a finish position, a finish time, final odds
\* or non-zero earnings only if its race is 'finished'.
C15_StatusAndResults ==
    /\ \A r \in DOMAIN races :
           r.status = IF r.race_date < r.created_at THEN "finished"
                      ELSE "scheduled"
    /\ \A e \in DOMAIN entries :
           HasResult(e) => RaceOfEntry(e).status = "finished"

\* reached: a finished race whose entries carry results next to a race
\* created for its own day, which is scheduled and has entries without any
C15_Witness ==
    /\ \E r \in FinishedRaces :
           /\ r.race_date < r.created_at
           /\ EntriesOfRace(r) # {}
           /\ \A e \in EntriesOfRace(r) : HasResult(e)
    /\ \E r \in DOMAIN races :
           /\ r.status = "scheduled" /\ r.race_date = r.created_at
           /\ EntriesOfRace(r) # {}
           /\ \A e \in EntriesOfRace(r) : ~HasResult(e)

\* every row of the six tables is in the next state as it is in this one
RowsKept ==
    /\ \A i \in DOMAIN tracks : i \in DOMAIN tracks' /\ tracks'[i] = tracks[i]
    /\ \A i \in DOMAIN horses : i \in DOMAIN horses' /\ horses'[i] = horses[i]
    /\ \A i \in DOMAIN drivers :
           i \in DOMAIN drivers' /\ drivers'[i] = drivers[i]
    /\ \A i \in DOMAIN trainers :
           i \in DOMAIN trainers' /\ trainers'[i] = trainers[i]
    /\ \A r \in DOMAIN races : r \in DOMAIN races' /\ races'[r] >= races[r]
    /\ \A e \in DOMAIN entries :
           e \in DOMAIN entries' /\ entries'[e] >= entries[e]

\* C16: sample-data generation only creates what is absent: every row of
\* tracks, horses, drivers, trainers, races and race_entries that is in the
\* store before a generation run is in it, unchanged, after the run, whether
\* the run succeeds or fails.
C16_CreateIfAbsentOnly ==
    [][(/\ resp'.op \in {"fetch_latest_data", "fetch_and_store_real_data"}
        /\ resp'.sample_run)
           => RowsKept]_vars

\* holds: the generation run by fetch_latest_data keeps every row
FetchLatestKeepsRows ==
    [][resp'.op = "fetch_latest_data" => RowsKept]_vars

\* reached: the generation of fetch-real has emptied a store that held races
WipedStoreReached ==
    /\ resp.op = "fetch_and_store_real_data" /\ resp.sample_run
    /\ races = EmptyBag /\ horses = <<>>
    /\ fetches # <<>>

\* no two rows of a table have the same value in the column col
KeyUnique(table, col) ==
    \A i, j \in DOMAIN table : table[i][col] = table[j][col] => i = j

\* C17: track and roster creation is idempotent.  A run that follows a run of
\* the same operation creates no row: the numbers of tracks, horses, drivers
\* and trainers stay what they were and the counters of created horses,
\* drivers and trainers it reports are zero; and at no time do two rows share
\* a track name, a horse registration number or a driver or trainer license
\* number.
C17_RosterIdempotent ==
    [][/\ KeyUnique(tracks', "name")
       /\ KeyUnique(horses', "registration_number")
       /\ KeyUnique(drivers', "license_number")
       /\ KeyUnique(trainers', "license_number")
       /\ (resp.op # "none" /\ resp'.op = resp.op /\ resp'.sample_run
              /\ resp.sample_run) =>
              /\ Len(tracks') = Len(tracks)
              /\ Len(horses') = Len(horses)
              /\ Len(drivers') = Len(drivers)
              /\ Len(trainers') = Len(trainers)
              /\ resp'.op = "fetch_latest_data" =>
                     /\ resp'.horses_updated = 0
                     /\ resp'.drivers_updated = 0
                     /\ resp'.trainers_updated = 0]_vars

\* reached: the answer of a second run of fetch_latest_data, which found the
\* catalog and the rosters in the store and reports no row created
C17_Witness ==
    /\ resp.op = "fetch_latest_data"
    /\ Len(fetches) = 2
    /\ fetches[1].records_processed > 0
    /\ resp.horses_updated = 0 /\ resp.drivers_updated = 0
    /\ resp.trainers_updated = 0
    /\ Len(tracks) = Len(TrackCatalog)
    /\ Len(horses) = Len(SampleHorses)
    /\ Len(drivers) = Len(SampleDrivers)
    /\ Len(trainers) = Len(SampleTrainers)

\* C18: a generation run of which a step fails after earlier steps succeeded
\* returns success = false together with the statistics (the counters of
\* created rows) accumulated before the failure.
C18_FailureCarriesStatistics ==
    (resp.op = "fetch_and_store_real_data" /\ resp.success = FALSE) =>
        "statistics" \in DOMAIN resp

\* holds: what a failed run committed before the failure stays in the store
\* (the emptied tables stay empty, the tracks stay)
FailedRunKeepsCommitted ==
    (resp.op = "fetch_and_store_real_data" /\ resp.success = FALSE) =>
        /\ entries = EmptyBag /\ races = EmptyBag
        /\ horses = <<>> /\ drivers = <<>> /\ trainers = <<>>

\* C19: an exception, a timeout or an empty result of the real-data fetch
\* counts as 'no data': fetch_latest_data and fetch_and_store_real_data then
\* run the sample-data generation, and the caller gets their result with no
\* error of the fetch in it.
C19_FetchFailureFallsBack ==
    (/\ resp.op \in {"fetch_latest_data", "fetch_and_store_real_data"}
     /\ resp.outcome \in {"raises", "timeout", "empty"}) =>
        /\ resp.sample_run
        /\ resp.op = "fetch_latest_data" => resp.errors = <<>>
        /\ resp.op = "fetch_and_store_real_data" =>
               resp.data_source = "sample"

\* reached: fetch_latest_data answered after a scraping that timed out, with
\* the races and entries of the sample generation counted
C19_Witness ==
    /\ resp.op = "fetch_latest_data" /\ resp.outcome = "timeout"
    /\ resp.sample_run /\ resp.races_updated > 0 /\ resp.entries_updated > 0
    /\ resp.errors = <<>>

\* reached: fetch_and_store_real_data answered by the sample generation after
\* the scraping raised
FetchRealFallbackReached ==
    /\ resp.op = "fetch_and_store_real_data" /\ resp.outcome = "raises"
    /\ resp.sample_run /\ resp.data_source = "sample"

(***************************************************************************)
(* What the recent form of a horse is specified to be.                     *)
(***************************************************************************)
\* the non-scratched entries of a horse, and entry a being of a later race
\* date than entry b, or of the same date and a higher race number
StartsOfHorse(h) ==
    {e \in DOMAIN entries : e.horse_id = h /\ ~e.scratched}
LaterStart(a, b) ==
    \/ RaceOfEntry(a).race_date > RaceOfEntry(b).race_date
    \/ /\ RaceOfEntry(a).race_date = RaceOfEntry(b).race_date
       /\ RaceOfEntry(a).race_number > RaceOfEntry(b).race_number

\* the entries that may stand at place i of the list of starts, most recent
\* first: fewer than i starts are later, at least i are not earlier
StartsAtPlace(h, i) ==
    {e \in StartsOfHorse(h) :
        /\ Cardinality({y \in StartsOfHorse(h) : LaterStart(y, e)}) < i
        /\ Cardinality({y \in StartsOfHorse(h) : ~LaterStart(e, y)}) >= i}

\* the finish position as a decimal string, 'DNF' for none
FormMark(e) ==
    IF e.finish_position = NULL THEN "DNF"
    ELSE DecimalString(e.finish_position)

\* C20: recent_form lists the finish positions of the at most 5 most recent
\* non-scratched entries of the horse, most recent first (race date, then
\* race number, descending), each as its decimal string or as 'DNF' when the
\* entry has no finish position; its length is min(5, total_starts).
C20_RecentForm ==
    (resp.op = "stats" /\ "recent_form" \in DOMAIN resp) =>
        LET h == resp.id
            form == resp.recent_form
            n == IF resp.total_starts < 5 THEN resp.total_starts ELSE 5
        IN  /\ resp.total_starts = Cardinality(StartsOfHorse(h))
            /\ Len(form) = n
            /\ \A i \in 1..n :
                   Cardinality({j \in 1..n :
                                   /\ StartsAtPlace(h, j) = StartsAtPlace(h, i)
                                   /\ form[j] = form[i]})
                     <= Cardinality({e \in StartsAtPlace(h, i) :
                                       FormMark(e) = form[i]})

\* reached: a horse with six starts and a form of five marks, a finish
\* position and 'DNF' among them, that leaves the oldest start out
C20_Witness ==
    /\ resp.op = "stats" /\ "recent_form" \in DOMAIN resp
    /\ resp.total_starts = 6
    /\ Len(resp.recent_form) = 5
    /\ \E i, j \in 1..5 :
           resp.recent_form[i] = "DNF" /\ resp.recent_form[j] = "1"

\* reached: a form that leaves a scratched entry of a later race out
ScratchedLeftOutOfForm ==
    /\ resp.op = "stats" /\ "recent_form" \in DOMAIN resp
    /\ Len(resp.recent_form) >= 1
    /\ \E e \in DOMAIN entries :
           /\ e.horse_id = resp.id /\ e.scratched
           /\ \A x \in StartsOfHorse(resp.id) : LaterStart(e, x)

(***************************************************************************)
(* What the best time of a horse is specified to be.                       *)
(***************************************************************************)
\* the winning, timed, non-scratched entries of a horse
TimedWins(h) ==
    {e \in DOMAIN entries : /\ e.horse_id = h
                            /\ e.scratched = FALSE
                            /\ e.finish_position = 1
                            /\ e.finish_time # NullString}

BestTimeWithoutScratched ==
    (resp.op = "stats" /\ resp.kind = "horse" /\ resp.status = "ok"
        /\ "best_time" \in DOMAIN resp
        /\ \A e \in DOMAIN entries : e.horse_id = resp.id => ~e.scratched) =>
        IF TimedWins(resp.id) = {} THEN resp.best_time = NullString
        ELSE /\ \E e \in TimedWins(resp.id) : e.finish_time = resp.best_time
             /\ \A e \in TimedWins(resp.id) :
                    ~StringBefore(e.finish_time, resp.best_time)

\* reached: a best time chosen among two different winning times
BestTimeChosenReached ==
    /\ resp.op = "stats" /\ resp.kind = "horse"
    /\ "best_time" \in DOMAIN resp
    /\ \E e \in TimedWins(resp.id) : StringBefore(resp.best_time, e.finish_time)

(***************************************************************************)
(* What a failing run is specified to leave in the store.                  *)
(***************************************************************************)
\* the number of entries the generator gives a race: the length of the zip of
\* the three samples
ExpectedEntries ==
    ZipLen(IF Len(SampleHorses) < SampleSize THEN Len(SampleHorses)
           ELSE SampleSize,
           IF Len(SampleDrivers) < SampleSize THEN Len(SampleDrivers)
           ELSE SampleSize,
           IF Len(SampleTrainers) < SampleSize THEN Len(SampleTrainers)
           ELSE SampleSize)

\* C22: whatever run completed or failed, at whatever operation, every race in
\* the committed store has all the entries it was to get (one for each post
\* position 1..N) and no entry is stored without its race: the entries of a
\* race are committed all together or not at all, also when the failure was
\* caught by fetch_latest_data and the audit record was committed on the same
\* session.
C22_EntriesAllOrNothing ==
    /\ \A r \in DOMAIN races :
          \A i \in 1..ExpectedEntries :
              SqlCount(FilterBag(entries,
                  {e \in DOMAIN entries :
                      e.race_id = r.id /\ e.post_position = i})) = 1
    /\ \A e \in DOMAIN entries :
          /\ e.post_position \in 1..ExpectedEntries
          /\ \E r \in DOMAIN races : r.id = e.race_id

\* reached: a run failed at the query of the second card, the handler
\* committed the session with the record of the failure, and the race of the
\* first card is in the store
C22_Witness ==
    /\ resp.op = "fetch_latest_data_failed"
    /\ resp.failed_at = "race_query"
    /\ resp.races_updated = 1
    /\ fetches # <<>>
    /\ fetches[Len(fetches)].status = "failed"
    /\ \E r \in DOMAIN races : r.created_at = today

\* reached: a run failed at the flush of a race and left no race behind
FlushFailureLeavesNoRace ==
    /\ resp.op = "fetch_latest_data_raised"
    /\ resp.failed_at = "race_flush"
    /\ races = EmptyBag

(***************************************************************************)
(* When fetch_latest_data is specified to generate sample data.            *)
(***************************************************************************)
\* C23: in a run of fetch_latest_data the sample generation runs if and only
\* if the real-data step did not succeed or the run has created fewer than 5
\* races so far; a run whose real-data step created 5 or more races adds no
\* horse, driver, trainer, race or entry of the generator; and the real-data
\* step has been attempted (its errors are in the result) in every run.
C23_FallbackThreshold ==
    [][resp'.op = "fetch_latest_data" =>
          LET real == FetchRealData(resp'.outcome)
          IN  /\ resp'.sample_run
                    <=> (~real.success \/ real.races_updated < 5)
              /\ real.races_updated >= 5 =>
                    /\ horses' = horses /\ drivers' = drivers
                    /\ trainers' = trainers
                    /\ races' = races /\ entries' = entries
              /\ resp'.errors = real.errors]_vars

\* reached: races were scraped, the real-data step stored none of them, and
\* the generation ran and created races
C23_Witness ==
    /\ resp.op = "fetch_latest_data"
    /\ resp.outcome = "races"
    /\ resp.errors # <<>>
    /\ resp.sample_run
    /\ resp.races_updated > 0

\* holds: no run of fetch_latest_data goes without the generation, because the
\* real-data step never creates a race
GenerationInEveryRun ==
    resp.op = "fetch_latest_data" => resp.sample_run

FormLengthMatchesStarts ==
    (resp.op = "stats" /\ resp.kind = "horse" /\ resp.status = "ok"
        /\ "recent_form" \in DOMAIN resp) =>
        Len(resp.recent_form) =
            (IF resp.total_starts < 5 THEN resp.total_starts ELSE 5)

\* holds: a result is that of the store it was computed on, run or no run
ResultOfCurrentStore ==
    (resp.op = "stats" /\ resp.kind = "horse" /\ resp.status = "ok"
        /\ "recent_form" \in DOMAIN resp) =>
        resp \in HorseStatsFull(resp.id)

\* reached: a result with more than five starts computed while a run awaits
\* the scraping
ReadDuringRunReached ==
    /\ inflight # EmptyBag
    /\ resp.op = "stats" /\ resp.kind = "horse"
    /\ resp.total_starts > 5

\* reached: a result computed after the run deleted the entries
ReadAfterWipeReached ==
    /\ resp.op = "stats" /\ resp.kind = "horse"
    /\ resp.id = FormHorse
    /\ races = EmptyBag

(***************************************************************************)
(* What the post time of a generated race is specified to be.              *)
(***************************************************************************)
\* the minutes of the day of a post time
MinuteOfDay(t) == t.hour * 60 + t.minute

\* C25: every race the generator creates has the post time of hour
\* 19 + total_minutes \div 60 and minute total_minutes % 60, total_minutes
\* being 15 minutes for each race number (race 5: 20:15); the minute is in
\* 0..59 and the hour in 0..23; and on one track and day the post times
\* strictly increase with the race number.
C25_PostTimeCarry ==
    /\ \A r \in DOMAIN races :
          LET total_minutes == r.race_number * 15
          IN  /\ r.post_time.hour = 19 + (total_minutes \div 60)
              /\ r.post_time.minute = total_minutes % 60
              /\ r.post_time.minute \in 0..59
              /\ r.post_time.hour \in 0..23
              /\ r.post_time.date = r.race_date
              /\ r.race_number = 5 =>
                    r.post_time.hour = 20 /\ r.post_time.minute = 15
    /\ \A r1, r2 \in DOMAIN races :
          (/\ r1.track_id = r2.track_id
           /\ r1.race_date = r2.race_date
           /\ r1.race_number < r2.race_number) =>
              MinuteOfDay(r1.post_time) < MinuteOfDay(r2.post_time)

\* reached: the eight races of a day are in the store, the fifth among them
C25_Witness ==
    /\ resp.op = "create_sample_races"
    /\ \A n \in 1..8 :
          \E r \in DOMAIN races :
              r.track_id = 1 /\ r.race_date = today /\ r.race_number = n

(***************************************************************************)
(* How the generator is specified to fill a race.                          *)
(***************************************************************************)
\* C26: in every race the generator created, no horse, no driver and no
\* trainer has more than one entry, and the N entries of the race have the
\* post positions 1, 2, ..., N, each once.
C26_DrawnWithoutReplacement ==
    \A r \in DOMAIN races :
        LET es == EntriesOfRace(r)
            N == SqlCount(FilterBag(entries, es))
        IN  /\ \A e1, e2 \in es :
                  e1 # e2 => /\ e1.horse_id # e2.horse_id
                             /\ e1.driver_id # e2.driver_id
                             /\ e1.trainer_id # e2.trainer_id
                             /\ e1.post_position # e2.post_position
            /\ \A e \in es : entries[e] = 1
            /\ {e.post_position : e \in es} = 1..N

\* reached: a race with two entries, the second of which has the horse with
\* the smaller id
C26_Witness ==
    \E r \in DOMAIN races :
        \E e1, e2 \in EntriesOfRace(r) :
            /\ e1.post_position = 1 /\ e2.post_position = 2
            /\ e2.horse_id < e1.horse_id

\* C27: every run of fetch_latest_data that returns appends exactly one
\* record to data_fetches and leaves the earlier ones alone: 'success' with
\* records_processed = races_updated + entries_updated and no message when
\* no step raised, 'failed' with records_processed = 0 and the message
\* otherwise.  A status that get_data_status reports is decided by the last
\* 'success' record alone: without one, last_fetch is None and the data are
\* "outdated", whatever failed runs were recorded; with one, last_fetch is
\* its completed_at and the freshness is one its age allows.
FreshnessAllowed(completed_at, now) ==
    IF completed_at = NULL THEN {"outdated"}
    ELSE IF now - completed_at = 0 THEN {"fresh", "stale"}
    ELSE IF now - completed_at = 1 THEN {"fresh", "stale", "outdated"}
    ELSE {"outdated"}

LatestSuccess(table) ==
    LET succ == {i \in DOMAIN table : table[i].status = "success"}
    IN  IF succ = {} THEN NULL ELSE table[MaxOf(succ)].completed_at

C27_OneAuditRecordPerRun ==
    [][/\ resp'.op \in {"fetch_latest_data", "fetch_latest_data_failed"}
          => /\ Len(fetches') = Len(fetches) + 1
             /\ SubSeq(fetches', 1, Len(fetches)) = fetches
             /\ LET record == fetches'[Len(fetches')]
                IN  IF resp'.op = "fetch_latest_data"
                    THEN /\ record.status = "success"
                         /\ record.records_processed =
                                resp'.races_updated + resp'.entries_updated
                         /\ record.error_message = NoMessage
                    ELSE /\ record.status = "failed"
                         /\ record.records_processed = 0
                         /\ record.error_message = "store error"
       /\ (resp'.op = "get_data_status" /\ resp'.status = "ok")
          => /\ resp'.last_fetch = LatestSuccess(fetches')
             /\ resp'.data_freshness \in
                    FreshnessAllowed(LatestSuccess(fetches'), today')
      ]_vars

\* a failed run was recorded after a successful one of the day before or
\* the same day, and the status read afterwards reports the successful one
C27_Witness ==
    /\ resp.op = "get_data_status"
    /\ resp.status = "ok"
    /\ Len(fetches) = 2
    /\ fetches[1].status = "success"
    /\ fetches[2].status = "failed"
    /\ fetches[2].records_processed = 0
    /\ resp.last_fetch = fetches[1].completed_at
    /\ resp.data_freshness = "outdated"

\* only failed runs were recorded and the status is read: the data are
\* reported "outdated"
FailedRunsOnlyReached ==
    /\ resp.op = "get_data_status"
    /\ fetches # <<>>
    /\ \A i \in DOMAIN fetches : fetches[i].status = "failed"

\* C28: after a generation run, every stored race dated before the current
\* day has the status 'finished' and each of its entries has a finish
\* position; in particular after runs on successive days no race of an
\* earlier day is still 'scheduled' without results.
C28_PastRacesFinished ==
    resp.op = "fetch_latest_data"
        => \A r \in DOMAIN races :
               r.race_date < today
                   => /\ r.status = "finished"
                      /\ \A e \in EntriesOfRace(r) : e.finish_position # NULL

\* C29: in every finished race the generator created, the earnings of the
\* entries of the race add up to no more than the purse of the race.
C29_EarningsWithinPurse ==
    \A r \in FinishedRaces :
        OrZero(SqlSum(FilterBag(entries, EntriesOfRace(r)), "earnings"))
            <= r.purse

\* C30: whatever way runs of the data fetcher overlap, the committed store
\* never holds two races with the same (track, race_date, race_number) nor
\* two tracks with the same name.
C30_NoDuplicateKeysUnderOverlap ==
    /\ \A r \in DOMAIN races : races[r] = 1
    /\ \A r1, r2 \in DOMAIN races :
           (/\ r1.track_id = r2.track_id
            /\ r1.race_date = r2.race_date
            /\ r1.race_number = r2.race_number) => r1 = r2
    /\ \A i, j \in DOMAIN tracks :
           tracks[i].name = tracks[j].name => i = j

\* reached: a run has created races and returned while another run, begun
\* before that one was recorded, is suspended after its own check of the
\* tracks
C30_Witness ==
    /\ resp.op = "fetch_latest_data"
    /\ resp.races_updated > 0
    /\ \E run \in DOMAIN inflight :
           /\ run.op = "fetch_latest_data"
           /\ run.begun_at < Len(fetches)

\* reached: two runs were suspended together and both have returned, the
\* second finding every card of the first in the store
BothOverlappingRunsReturned ==
    /\ resp.op = "fetch_latest_data"
    /\ resp.races_updated = 0
    /\ Len(fetches) = 2
    /\ fetches[1].records_processed > 0
    /\ inflight = EmptyBag

====
